---- MODULE Spec2Model ----
(***************************************************************************)
(* A model of the Fusion compiler front end and of the code it emits:      *)
(*   - the C-ABI record layout engine        (compiler/src/layout.cpp)     *)
(*   - the execution of lowered array code   (compiler/src/codegen.cpp)    *)
(*   - the semantic analyzer and IR emitter  (sema.cpp, codegen.cpp)       *)
(*   - the multi-file import resolver        (compiler/src/multifile.cpp)  *)
(* Each part has its own variables, initial predicate and next-state       *)
(* relation; a specification of one part keeps the other parts idle.       *)
(***************************************************************************)
EXTENDS Integers, Sequences, FiniteSets, TLC

(***************************************************************************)
(* Bounds of the model.                                                    *)
(***************************************************************************)
MaxFields == 3
MaxLen == 2
MaxBlocks == 1
MaxCalls == 1
MaxStmts == 3
MaxDepth == 2
MaxItems == 4
MaxImports == 2

VARIABLES
  \* ---- layout engine: one run of compute_layout(def)
  ldef,        \* def.fields: the sequence of field types of the record
  lpc,         \* position in compute_layout: start, loop, done, crashed
  lpos,        \* index of the next field the loop visits
  lalignment,  \* local `alignment`
  loffset,     \* local `offset`
  lout,        \* the StructLayout `out` being built
  \* ---- execution of the emitted code: memory blocks and call frames
  rblocks,     \* the blocks allocated so far, in allocation order
  rframes,     \* ids of the active call frames, innermost last
  rcalls,      \* number of calls made so far (the next frame id)
  rstatus,     \* running, or panicked (rt_panic was called)
  rlast,       \* the operation executed last
  \* ---- semantic analysis and emission of one body, statement by statement
  sdef,        \* the body walked: "top" or the name of a user function
  sema,        \* the analyzer's scope stacks and verdict
  cg,          \* the emitter's scope stacks, type maps and verdict
  blocks,      \* the enclosing blocks of the current position, innermost last
  ghost,       \* lexical scoping as the language defines it (history)
  nstmts,      \* statements walked so far
  last,        \* the statement walked last and what was observed on it
  \* ---- import resolution: the merge loop of resolve_imports_and_merge
  imain,       \* main_prog: struct_defs, user_fns, libs, extern_fns
  imain0,      \* main_prog as it was when resolve_imports_and_merge was called (history)
  idone,       \* the import requests merged so far, in post-order (history)
  ierr,        \* the error resolve_imports_and_merge returns, if any
  ipc,         \* idle, merging, ok (returned ""), failed (returned an error)
  ilast,       \* the request merged last and main_prog before that merge
  \* ---- import resolution: load_and_build_postorder and the merge order
  files,       \* the import names of main and of every library file, as parsed
  frames,      \* the active calls of load_and_build_postorder, innermost last
  loading,     \* canonical paths of the files being loaded
  cache,       \* canonical paths of the files parsed so far
  postorder,   \* the (library, request) pairs recorded so far
  nmerged,     \* how many pairs of the post-order the merge loop has merged
  lderr,       \* the error resolve_imports_and_merge returns, if any
  ldpc,        \* idle, loading, merging, ok, failed
  ldlast,      \* the call of load_and_build_postorder made last
  parsed,      \* the canonical paths of the files parsed, one entry per parse (history)
  \* ---- the entry function fusion_main: its emission and its execution
  eprog,       \* the program: the paths of its external libraries and its top-level items
  eir,         \* the instructions of fusion_main emitted so far
  epc,         \* idle, emit_libs, emit_items, emit_failed, running, returned, panicked
  eip,         \* the index of the instruction executed next
  etrace,      \* what fusion_main has executed so far (history)
  ebuf,        \* rt_dl_error_buf of the runtime
  epanic,      \* the message rt_panic was called with, "none" while it was not
  \* ---- the driver: run_file of main.cpp
  dargs,       \* the path given to run_file, FUSION_DEBUG, and whether the build has LLVM
  dpc,         \* idle, open, the stage run next, exit0, exit1, exited, aborted
  dran,        \* the stages that were run, in the order of their calls (history)
  dfail,       \* the stage that reported an error, "none" while none did
  derr,        \* the last line written to standard error
  dexit,       \* the value run_file returned, NoExit while it has not
  \* ---- the lexer and the expression parser
  pin,         \* the operators of the expression and the form it is written in
  psrc,        \* the source text of the expression, a sequence of characters
  ptoks,       \* the tokens lex returned
  ppc,         \* idle, lex, parse, done
  past,        \* what parse_expr returned: the expression (or null) and the next index
  \* ---- the signature cache of the runtime: rt_ffi_sig_create of ffi.c
  sig_cache,   \* the cached signatures, as indexes into sig_storage; its length is sig_cache_count
  sig_storage, \* the signatures written to sig_storage so far
  flast,       \* the call of rt_ffi_sig_create made last: its arguments, result and error buffer
  fhist,       \* the signatures asked for and pointers returned by the successful calls (history)
  \* ---- the basic blocks the emitter produces for one function body
  irfn,        \* the return type of the function emitted
  irblocks,    \* the basic blocks of the function, each the sequence of its instructions
  irpoint,     \* the insertion point of the builder: the index of a block
  iropen,      \* the if and for statements being emitted, innermost last
  irn,         \* the number of statements emitted
  irpc         \* idle, body, done

layoutVars == <<ldef, lpc, lpos, lalignment, loffset, lout>>
rtVars == <<rblocks, rframes, rcalls, rstatus, rlast>>
compVars == <<sdef, sema, cg, blocks, ghost, nstmts, last>>
impVars == <<imain, imain0, idone, ierr, ipc, ilast>>
loadVars == <<files, frames, loading, cache, postorder, nmerged, lderr, ldpc, ldlast,
              parsed>>
entryVars == <<eprog, eir, epc, eip, etrace, ebuf, epanic>>
driverVars == <<dargs, dpc, dran, dfail, derr, dexit>>
parserVars == <<pin, psrc, ptoks, ppc, past>>
ffiVars == <<sig_cache, sig_storage, flast, fhist>>
blkVars == <<irfn, irblocks, irpoint, iropen, irn, irpc>>

\* The parts added after the import merge
laterVars == <<loadVars, entryVars, driverVars, parserVars, ffiVars, blkVars>>

vars == <<layoutVars, rtVars, compVars, impVars, laterVars>>

\* What a step of one part leaves alone.
notLayoutVars == <<rtVars, compVars, impVars, laterVars>>
notRtVars == <<layoutVars, compVars, impVars, laterVars>>
notCompVars == <<layoutVars, rtVars, impVars, laterVars>>
notImpVars == <<layoutVars, rtVars, compVars, laterVars>>
earlierVars == <<layoutVars, rtVars, compVars, impVars>>
notLoadVars == <<earlierVars, entryVars, driverVars, parserVars, ffiVars, blkVars>>
notEntryVars == <<earlierVars, loadVars, driverVars, parserVars, ffiVars, blkVars>>
notDriverVars == <<earlierVars, loadVars, entryVars, parserVars, ffiVars, blkVars>>
notParserVars == <<earlierVars, loadVars, entryVars, driverVars, ffiVars, blkVars>>
notFfiVars == <<earlierVars, loadVars, entryVars, driverVars, parserVars, blkVars>>
notBlkVars == <<earlierVars, loadVars, entryVars, driverVars, parserVars, ffiVars>>

LayoutIdle ==
  /\ ldef = <<>>
  /\ lpc = "idle"
  /\ lpos = 1
  /\ lalignment = 0
  /\ loffset = 0
  /\ lout = [size |-> 0, alignment |-> 0, fields |-> <<>>]

RtIdle ==
  /\ rblocks = <<>>
  /\ rframes = <<0>>
  /\ rcalls = 0
  /\ rstatus = "idle"
  /\ rlast = [op |-> "none", b |-> 0, i |-> 0, msg |-> ""]

\* No emission under way
CgIdle ==
  [slots |-> <<>>, elems |-> <<>>, fnptrs |-> <<>>, var_types |-> <<>>,
   btype |-> <<>>, ok |-> FALSE, err |-> "idle"]

CompIdle ==
  /\ sdef = "idle"
  /\ sema = [vars |-> <<>>, elems |-> <<>>, fnptrs |-> <<>>, ok |-> FALSE, err |-> "idle"]
  /\ cg = CgIdle
  /\ blocks = <<>>
  /\ ghost = [scopes |-> <<>>, dead |-> {}]
  /\ nstmts = 0
  /\ last = [kind |-> "none"]

NoImportErr == [msg |-> "", sym |-> ""]

ImpIdle ==
  /\ imain = [struct_defs |-> <<>>, user_fns |-> <<>>, libs |-> <<>>, extern_fns |-> <<>>]
  /\ imain0 = imain
  /\ idone = <<>>
  /\ ierr = NoImportErr
  /\ ipc = "idle"
  /\ ilast = [kind |-> "none"]

LoadIdle ==
  /\ files = <<>>
  /\ frames = <<>>
  /\ loading = {}
  /\ cache = {}
  /\ postorder = <<>>
  /\ nmerged = 0
  /\ lderr = NoImportErr
  /\ ldpc = "idle"
  /\ ldlast = [op |-> "none"]
  /\ parsed = <<>>

EntryIdle ==
  /\ eprog = [libs |-> <<>>, items |-> <<>>]
  /\ eir = <<>>
  /\ epc = "idle"
  /\ eip = 1
  /\ etrace = <<>>
  /\ ebuf = ""
  /\ epanic = "none"

\* No value returned yet; the status of a process ended by abort
NoExit == -1
AbortStatus == 134

DriverIdle ==
  /\ dargs = [path |-> "", debug |-> FALSE, llvm |-> FALSE]
  /\ dpc = "idle"
  /\ dran = <<>>
  /\ dfail = "none"
  /\ derr = ""
  /\ dexit = NoExit

ParserIdle ==
  /\ pin = [ops |-> <<>>, form |-> "none"]
  /\ psrc = <<>>
  /\ ptoks = <<>>
  /\ ppc = "idle"
  /\ past = [e |-> [k |-> "null"], i |-> 0]

FfiIdle ==
  /\ sig_cache = <<>>
  /\ sig_storage = <<>>
  /\ flast = [kind |-> "none"]
  /\ fhist = {}

BlkIdle ==
  /\ irfn = "none"
  /\ irblocks = <<>>
  /\ irpoint = 0
  /\ iropen = <<>>
  /\ irn = 0
  /\ irpc = "idle"

\* Every part added after the import merge is idle, but the named one
LaterIdle(part) ==
  /\ IF part # "load" THEN LoadIdle ELSE TRUE
  /\ IF part # "entry" THEN EntryIdle ELSE TRUE
  /\ IF part # "driver" THEN DriverIdle ELSE TRUE
  /\ IF part # "parser" THEN ParserIdle ELSE TRUE
  /\ IF part # "ffi" THEN FfiIdle ELSE TRUE
  /\ IF part # "blk" THEN BlkIdle ELSE TRUE

(***************************************************************************)
(* Primitive types (ast.hpp FfiType) and their C size and alignment.       *)
(***************************************************************************)
FfiType == {"Void", "I32", "I64", "F32", "F64", "Ptr"}

ffi_type_size(t) ==
  CASE t = "I32" -> 4
    [] t = "I64" -> 8
    [] t = "F32" -> 4
    [] t = "F64" -> 8
    [] t = "Ptr" -> 8
    [] OTHER -> 0

ffi_type_align(t) == ffi_type_size(t)

\* All sequences over S of length at most n.
SeqsUpTo(S, n) == UNION {[1..k -> S] : k \in 0..n}

(***************************************************************************)
(* compute_layout, one loop iteration per step.                            *)
(***************************************************************************)
EmptyLayout == [size |-> 0, alignment |-> 0, fields |-> <<>>]

\* A bug: the offset is not rounded up to the field's alignment (packed).
AlignUpPacked(offset, align) == offset

\* "Next offset = next multiple of align >= offset"
AlignUp(offset, align) ==
  LET rem == offset % align
  IN  IF rem # 0 THEN offset + (align - rem) ELSE offset

LayoutInit ==
  /\ ldef \in SeqsUpTo(FfiType, MaxFields)
  /\ lpc = "start"
  /\ lpos = 1
  /\ lalignment = 0
  /\ loffset = 0
  /\ lout = EmptyLayout
  /\ RtIdle
  /\ CompIdle
  /\ ImpIdle
  /\ LaterIdle("none")

\* if (def.fields.empty()) return out;
LayoutEnter ==
  /\ lpc = "start"
  /\ lpc' = IF Len(ldef) = 0 THEN "done" ELSE "loop"
  /\ UNCHANGED <<ldef, lpos, lalignment, loffset, lout>>
  /\ UNCHANGED notLayoutVars

\* One iteration of `for (const auto& p : def.fields)`.
LayoutField ==
  /\ lpc = "loop"
  /\ lpos <= Len(ldef)
  /\ LET ty    == ldef[lpos]
         align == ffi_type_align(ty)
         size  == ffi_type_size(ty)
     IN  IF align = 0 \/ size = 0
         THEN UNCHANGED <<lalignment, loffset, lout>>
         ELSE LET off == AlignUp(loffset, align)
              IN  /\ lalignment' = IF lalignment < align THEN align ELSE lalignment
                  /\ lout' = [lout EXCEPT !.fields =
                                Append(@, [name |-> lpos, offset |-> off, type |-> ty])]
                  /\ loffset' = off + size
  /\ lpos' = lpos + 1
  /\ UNCHANGED <<ldef, lpc>>
  /\ UNCHANGED notLayoutVars

\* After the loop: out.alignment = alignment; round the size up to it.
\* With alignment = 0 (every field Void) `offset % alignment` divides by
\* zero: undefined behaviour, the run traps or yields some size.
LayoutFinish ==
  /\ lpc = "loop"
  /\ lpos > Len(ldef)
  /\ IF lalignment = 0
     THEN \/ /\ lpc' = "crashed"
             /\ UNCHANGED lout
          \/ /\ lpc' = "done"
             /\ \E s \in {0, 1} :
                  lout' = [lout EXCEPT !.alignment = 0, !.size = s]
     ELSE /\ lpc' = "done"
          /\ lout' = [lout EXCEPT !.alignment = lalignment,
                                  !.size = AlignUp(loffset, lalignment)]
  /\ UNCHANGED <<ldef, lpos, lalignment, loffset>>
  /\ UNCHANGED notLayoutVars

LayoutNext ==
  \/ LayoutEnter
  \/ LayoutField
  \/ LayoutFinish

SpecLayout == LayoutInit /\ [][LayoutNext]_vars

(***************************************************************************)
(* C1: a laid-out record is canonical.                                     *)
(***************************************************************************)
\* The C rule, stated without the code's remainder arithmetic.
RoundUp(x, a) == ((x + a - 1) \div a) * a

MaxOf(S) == CHOOSE m \in S : \A x \in S : x <= m

\* The element of a one-element set
The(S) == CHOOSE x \in S : TRUE

\* C1: when compute_layout has returned a layout with at least one laid-out
\* field, the first field is at offset 0, every later field i is at
\* round_up(offset(i-1) + size(i-1), align(i)), the record alignment is the
\* largest field alignment and the record size is
\* round_up(offset(last) + size(last), alignment); a record of I32/I64/F32/
\* F64/Ptr fields has every field laid out, in declaration order.
C1_LayoutCanonical ==
  (lpc = "done" /\ Len(lout.fields) > 0) =>
    LET F == lout.fields
        n == Len(F)
    IN  /\ F[1].offset = 0
        /\ \A i \in 2..n :
             F[i].offset = RoundUp(F[i-1].offset + ffi_type_size(F[i-1].type),
                                   ffi_type_align(F[i].type))
        /\ lout.alignment = MaxOf({ffi_type_align(ldef[i]) : i \in 1..Len(ldef)})
        /\ lout.size = RoundUp(F[n].offset + ffi_type_size(F[n].type), lout.alignment)
        /\ (\A i \in 1..Len(ldef) : ldef[i] # "Void") =>
             /\ n = Len(ldef)
             /\ \A i \in 1..n : F[i].type = ldef[i] /\ F[i].name = i

\* A record {I32, I64, I32}: padding before the second field and at the end.
C1_Witness ==
  /\ lpc = "done"
  /\ ldef = <<"I32", "I64", "I32">>
  /\ lout.fields[2].offset = 8
  /\ lout.size = 24

\* The indexes of the fields of def that are not of Void type, in order
NonVoid(def) == SelectSeq([i \in 1..Len(def) |-> i], LAMBDA i : def[i] # "Void")

\* C25: compute_layout returns a layout for every record definition: the
\* fields laid out are those not of Void type, in declaration order, and
\* size and alignment are those of the record without its Void fields
\* (both 0 when no field is left, as for a record with no fields).
C25_VoidSkipped ==
  (lpc \in {"done", "crashed"}) =>
    /\ lpc = "done"
    /\ Len(lout.fields) = Len(NonVoid(ldef))
    /\ \A i \in 1..Len(lout.fields) :
         /\ lout.fields[i].name = NonVoid(ldef)[i]
         /\ lout.fields[i].type = ldef[NonVoid(ldef)[i]]
         /\ lout.fields[i].offset =
              IF i = 1 THEN 0
              ELSE RoundUp(lout.fields[i-1].offset + ffi_type_size(lout.fields[i-1].type),
                           ffi_type_align(lout.fields[i].type))
    /\ lout.alignment = MaxOf({0} \cup {ffi_type_align(ldef[i]) : i \in 1..Len(ldef)})
    /\ lout.size =
         IF Len(lout.fields) = 0 THEN 0
         ELSE RoundUp(lout.fields[Len(lout.fields)].offset
                        + ffi_type_size(lout.fields[Len(lout.fields)].type),
                      lout.alignment)

(***************************************************************************)
(* Execution of the code the emitter produces for arrays and raw memory.   *)
(* A block is a region obtained from malloc ("heap") or from an alloca     *)
(* ("stack") of the frame that executed it; an alloca dies when its frame  *)
(* returns.                                                                *)
(***************************************************************************)
ElemNames == {"i32", "i64", "f64"}

\* AllocArray: elem_size from the element type name
AllocElemSize(elem_name) ==
  IF elem_name = "i32" \/ elem_name = "f32" THEN 4 ELSE 8

\* A bug: the array is an alloca of the current frame.
AllocArrayOnStack(elem_name, count_val, frame) ==
  [kind |-> "stack", origin |-> "alloc_array", frame |-> frame,
   elem |-> elem_name, n |-> count_val,
   bytes |-> 8 + count_val * AllocElemSize(elem_name),
   hdr |-> count_val, intact |-> TRUE, live |-> TRUE]

\* AllocArray: malloc(8 + count * elem_size); store count at the base.
AllocArrayBlock(elem_name, count_val, frame) ==
  [kind |-> "heap", origin |-> "alloc_array", frame |-> frame,
   elem |-> elem_name, n |-> count_val,
   bytes |-> 8 + count_val * AllocElemSize(elem_name),
   hdr |-> count_val, intact |-> TRUE, live |-> TRUE]

\* AllocBytes: alloca i8, size; the bytes are uninitialized.
AllocBytesBlock(size_val, garbage, frame) ==
  [kind |-> "stack", origin |-> "alloc_bytes", frame |-> frame,
   elem |-> "i8", n |-> size_val, bytes |-> size_val,
   hdr |-> garbage, intact |-> TRUE, live |-> TRUE]

\* A bug: the last valid index is taken for len, not len - 1.
OobOffByOne(index_val, len) == index_val < 0 \/ index_val > len

\* The bounds test of Index and of Assign to an Index: icmp slt / icmp sge.
IndexOob(index_val, len) == index_val < 0 \/ index_val >= len

RtInit ==
  /\ rblocks = <<>>
  /\ rframes = <<0>>
  /\ rcalls = 0
  /\ rstatus = "running"
  /\ rlast = [op |-> "none", b |-> 0, i |-> 0, msg |-> ""]
  /\ LayoutIdle
  /\ CompIdle
  /\ ImpIdle
  /\ LaterIdle("none")

CurFrame == rframes[Len(rframes)]

\* A user function is called: a new frame.
RtCall ==
  /\ rstatus = "running"
  /\ rcalls < MaxCalls
  /\ rcalls' = rcalls + 1
  /\ rframes' = Append(rframes, rcalls + 1)
  /\ rlast' = [op |-> "call", b |-> 0, i |-> 0, msg |-> ""]
  /\ UNCHANGED <<rblocks, rstatus>>
  /\ UNCHANGED notRtVars

\* The current function returns: its allocas are gone.
RtReturn ==
  /\ rstatus = "running"
  /\ Len(rframes) > 1
  /\ rframes' = SubSeq(rframes, 1, Len(rframes) - 1)
  /\ rblocks' = [k \in 1..Len(rblocks) |->
                   IF rblocks[k].kind = "stack" /\ rblocks[k].frame = CurFrame
                   THEN [rblocks[k] EXCEPT !.live = FALSE]
                   ELSE rblocks[k]]
  /\ rlast' = [op |-> "return", b |-> 0, i |-> 0, msg |-> ""]
  /\ UNCHANGED <<rcalls, rstatus>>
  /\ UNCHANGED notRtVars

\* alloc_array(T, n)
RtAllocArray ==
  /\ rstatus = "running"
  /\ Len(rblocks) < MaxBlocks
  /\ \E elem_name \in ElemNames, count_val \in 0..MaxLen :
       rblocks' = Append(rblocks, AllocArrayBlock(elem_name, count_val, CurFrame))
  /\ rlast' = [op |-> "alloc_array", b |-> Len(rblocks) + 1, i |-> 0, msg |-> ""]
  /\ UNCHANGED <<rframes, rcalls, rstatus>>
  /\ UNCHANGED notRtVars

\* alloc_bytes(8)
RtAllocBytes ==
  /\ rstatus = "running"
  /\ Len(rblocks) < MaxBlocks
  /\ \E garbage \in {0, MaxLen + 1} :
       rblocks' = Append(rblocks, AllocBytesBlock(8, garbage, CurFrame))
  /\ rlast' = [op |-> "alloc_bytes", b |-> Len(rblocks) + 1, i |-> 0, msg |-> ""]
  /\ UNCHANGED <<rframes, rcalls, rstatus>>
  /\ UNCHANGED notRtVars

\* store(p, v) with p the base of a live block: an i64 store at offset 0.
RtStore ==
  /\ rstatus = "running"
  /\ \E b \in 1..Len(rblocks), v \in {0, MaxLen + 1} :
       /\ rblocks[b].live
       /\ rblocks[b].bytes >= 8
       /\ rblocks' = [rblocks EXCEPT ![b].hdr = v, ![b].intact = FALSE]
       /\ rlast' = [op |-> "store", b |-> b, i |-> 0, msg |-> ""]
  /\ UNCHANGED <<rframes, rcalls, rstatus>>
  /\ UNCHANGED notRtVars

\* The indices a program may use.
IndexValues == (0 - 1)..(MaxLen + 1)

\* a[i] as an expression: len = load base; branch on oob; panic or load.
RtIndexLoad ==
  /\ rstatus = "running"
  /\ \E b \in 1..Len(rblocks), index_val \in IndexValues :
       /\ rblocks[b].live
       /\ LET len == rblocks[b].hdr
          IN  IF IndexOob(index_val, len)
              THEN /\ rstatus' = "panicked"
                   /\ rlast' = [op |-> "panic", b |-> b, i |-> index_val,
                                msg |-> "index out of bounds"]
              ELSE /\ rstatus' = "running"
                   /\ rlast' = [op |-> "index.load", b |-> b, i |-> index_val,
                                msg |-> ""]
  /\ UNCHANGED <<rblocks, rframes, rcalls>>
  /\ UNCHANGED notRtVars

\* a[i] = v: the same test, then the element store.
RtIndexStore ==
  /\ rstatus = "running"
  /\ \E b \in 1..Len(rblocks), index_val \in IndexValues :
       /\ rblocks[b].live
       /\ LET len == rblocks[b].hdr
          IN  IF IndexOob(index_val, len)
              THEN /\ rstatus' = "panicked"
                   /\ rlast' = [op |-> "panic", b |-> b, i |-> index_val,
                                msg |-> "index out of bounds"]
              ELSE /\ rstatus' = "running"
                   /\ rlast' = [op |-> "index.store", b |-> b, i |-> index_val,
                                msg |-> ""]
  /\ UNCHANGED <<rblocks, rframes, rcalls>>
  /\ UNCHANGED notRtVars

RtNext ==
  \/ RtCall
  \/ RtReturn
  \/ RtAllocArray
  \/ RtAllocBytes
  \/ RtStore
  \/ RtIndexLoad
  \/ RtIndexStore

SpecRun == RtInit /\ [][RtNext]_vars

(***************************************************************************)
(* C2: array indexing is bounds-checked.                                   *)
(***************************************************************************)
IsArray(b) == b \in 1..Len(rblocks) /\ rblocks[b].origin = "alloc_array"

FrameReturned(f) == \A k \in 1..Len(rframes) : rframes[k] # f

\* C2 as stated: for an array a from alloc_array(T, n) and any index i, an
\* indexed read or write panics with "index out of bounds" whenever i < 0 or
\* i >= n, and loads or stores the element only when 0 <= i < n.
C2_AsStated ==
  IsArray(rlast.b) =>
    LET n == rblocks[rlast.b].n
    IN  /\ rlast.op \in {"index.load", "index.store"} => (0 <= rlast.i /\ rlast.i < n)
        /\ rlast.op = "panic" =>
              (rlast.msg = "index out of bounds" /\ (rlast.i < 0 \/ rlast.i >= n))

\* C2 (amended): the same, for an array whose 8-byte length prefix the
\* program has not overwritten: the access panics with "index out of bounds"
\* exactly when i < 0 or i >= n and touches the element exactly when
\* 0 <= i < n.
C2_BoundsChecked ==
  (IsArray(rlast.b) /\ rblocks[rlast.b].intact) =>
    LET n == rblocks[rlast.b].n
    IN  /\ rlast.op \in {"index.load", "index.store"} => (0 <= rlast.i /\ rlast.i < n)
        /\ rlast.op = "panic" =>
              (rlast.msg = "index out of bounds" /\ (rlast.i < 0 \/ rlast.i >= n))
        /\ rlast.op \in {"index.load", "index.store", "panic"} =>
              (rstatus = "panicked" <=> (rlast.i < 0 \/ rlast.i >= n))

\* An access at i = n > 0 of an untouched array has panicked.
C2_Witness ==
  /\ IsArray(rlast.b)
  /\ rblocks[rlast.b].intact
  /\ rblocks[rlast.b].n > 0
  /\ rlast.op = "panic"
  /\ rlast.i = rblocks[rlast.b].n
  /\ rstatus = "panicked"

(***************************************************************************)
(* C3: arrays live on the heap.                                            *)
(***************************************************************************)
\* sizeof(T) for the primitive element types
SizeOfElem(T) == IF T \in {"i32", "f32"} THEN 4 ELSE 8

\* C3: every block made by alloc_array(T, n) is a heap block of
\* 8 + n * sizeof(T) bytes, never an alloca; right after the allocation its
\* first 8 bytes hold n; and it stays valid whatever frames return.
C3_ArrayOnHeap ==
  \A b \in 1..Len(rblocks) :
    rblocks[b].origin = "alloc_array" =>
      /\ rblocks[b].kind = "heap"
      /\ rblocks[b].bytes = 8 + rblocks[b].n * SizeOfElem(rblocks[b].elem)
      /\ rblocks[b].live
      /\ (rlast.op = "alloc_array" /\ rlast.b = b) => rblocks[b].hdr = rblocks[b].n

\* An array allocated by a function that has since returned is still valid.
C3_Witness ==
  \E b \in 1..Len(rblocks) :
    /\ rblocks[b].origin = "alloc_array"
    /\ rblocks[b].n > 0
    /\ FrameReturned(rblocks[b].frame)
    /\ rblocks[b].live

(***************************************************************************)
(* The semantic analyzer and the IR emitter walk the same statements with  *)
(* the same three scope stacks.  Expressions are records tagged by k; the  *)
(* declared functions of the program under analysis are fixed.             *)
(***************************************************************************)
Names == {"p", "q", "x", "a", "y"}

\* Program::user_fns of the analyzed program: name -> signature
UserFns ==
  [f |-> [params |-> <<"I64">>, result |-> "I64"],
   g |-> [params |-> <<"F64">>, result |-> "F64"]]

\* Parameter names of the user functions (FnDef::params[j].first)
ParamNames == [f |-> <<"x">>, g |-> <<"x">>]

\* Program::extern_fns of the analyzed program
ExternFns ==
  [cos |-> [params |-> <<"F64">>, result |-> "F64"]]

UserFnNames == DOMAIN UserFns
ExternFnNames == DOMAIN ExternFns

\* An absent map entry, an absent signature, a call node without inference.
NoSig == [params |-> <<>>, result |-> "none"]
NoInf == [params |-> <<>>, result |-> "Void"]
EmptyScope == [n \in Names |-> "none"]
EmptySigScope == [n \in Names |-> NoSig]

\* Expr nodes (ast.hpp Expr::Kind and the factory functions)
IntLit == [k |-> "Int"]
FloatLit == [k |-> "Float"]
StrLit == [k |-> "Str"]
VarRef(n) == [k |-> "Var", name |-> n]
BinaryOp(op, l, r) == [k |-> "Bin", name |-> op, l |-> l, r |-> r]
GetFuncPtr(f) == [k |-> "GetFn", name |-> f]
CallPtr(target, args) == [k |-> "CallPtr", l |-> target, args |-> args, inf |-> NoInf]
CallFn(callee, args) == [k |-> "CallFn", name |-> callee, args |-> args]
PrintOf(e) == [k |-> "Print", l |-> e]
CastTo(e, to) == [k |-> "Cast", l |-> e, name |-> to]
IndexOf(base, i) == [k |-> "Index", l |-> base, r |-> i]
AllocArrayOf(elem, cnt) == [k |-> "AllocArray", name |-> elem, l |-> cnt]
AllocBytesOf(cnt) == [k |-> "AllocBytes", l |-> cnt]

\* Innermost-to-outermost lookup in a scope stack.
ScopeLookup(stack, name, none) ==
  LET hits == {i \in 1..Len(stack) : stack[i][name] # none}
  IN  IF hits = {} THEN none ELSE stack[MaxOf(hits)][name]

FirstErr(errs) ==
  LET bad == {i \in 1..Len(errs) : errs[i] # ""}
  IN  IF bad = {} THEN "" ELSE errs[CHOOSE i \in bad : \A j \in bad : i <= j]

var_type_lookup(s, name) == ScopeLookup(s.vars, name, "none")

array_elem_lookup(s, name) ==
  LET t == ScopeLookup(s.elems, name, "none") IN IF t = "none" THEN "Void" ELSE t

ElemTypeOfName(t) ==
  CASE t = "i32" -> "I32" [] t = "i64" -> "I64" [] t = "f32" -> "F32"
    [] t = "f64" -> "F64" [] t = "ptr" -> "Ptr" [] OTHER -> "Void"

is_alloc_type(name) == name \in {"i32", "i64", "f32", "f64", "ptr"}

\* A bug: a variable is never taken for an array.
get_array_element_type_of_alloc(e, s) ==
  CASE e.k = "AllocArray" -> ElemTypeOfName(e.name)
    [] OTHER -> "Void"

get_array_element_type(e, s) ==
  CASE e.k = "Var" -> array_elem_lookup(s, e.name)
    [] e.k = "AllocArray" -> ElemTypeOfName(e.name)
    [] OTHER -> "Void"

\* A named function's signature: user functions first, then extern ones.
NamedFnSig(name) ==
  IF name \in UserFnNames THEN UserFns[name]
  ELSE IF name \in ExternFnNames THEN ExternFns[name]
  ELSE NoSig

lookup_fnptr_sig(s, e) ==
  CASE e.k = "Var" ->
         LET hit == ScopeLookup(s.fnptrs, e.name, NoSig)
         IN  IF hit # NoSig THEN hit ELSE NamedFnSig(e.name)
    [] e.k = "GetFn" -> NamedFnSig(e.name)
    [] OTHER -> NoSig

\* expr_type of call(target, ...): the target's signature when known, else
\* the result inferred for the node when parameters were inferred
CallPtrType(sig, inf) ==
  IF sig # NoSig THEN sig.result
  ELSE IF inf.params # <<>> THEN inf.result
  ELSE "Void"

VoidIfNone(t) == IF t = "none" THEN "Void" ELSE t

\* expr_type of base[i]: the element type when known, else I64
IndexElemType(elem) == IF elem # "Void" THEN elem ELSE "I64"

RECURSIVE SemaExprType(_, _)
SemaExprType(e, s) ==
  CASE e.k = "Int" -> "I64"
    [] e.k = "Float" -> "F64"
    [] e.k = "Str" -> "Ptr"
    [] e.k = "Bin" ->
         IF SemaExprType(e.l, s) = "F64" \/ SemaExprType(e.r, s) = "F64"
         THEN "F64" ELSE "I64"
    [] e.k = "GetFn" -> "Ptr"
    [] e.k = "CallPtr" -> CallPtrType(lookup_fnptr_sig(s, e.l), e.inf)
    [] e.k = "Print" -> "Void"
    [] e.k = "CallFn" ->
         IF e.name \in ExternFnNames THEN ExternFns[e.name].result
         ELSE IF e.name \in UserFnNames THEN UserFns[e.name].result
         ELSE "Void"
    [] e.k = "Var" -> VoidIfNone(var_type_lookup(s, e.name))
    [] e.k \in {"AllocArray", "AllocBytes"} -> "Ptr"
    [] e.k = "Cast" ->
         CASE e.name = "ptr" -> "Ptr" [] e.name = "i64" -> "I64"
           [] e.name = "i32" -> "I32" [] e.name = "f64" -> "F64"
           [] e.name = "f32" -> "F32" [] OTHER -> "Void"
    [] e.k = "Index" -> IndexElemType(get_array_element_type(e.l, s))
    [] OTHER -> "Void"

\* The signature check_expr stores on a call node whose target has no known
\* signature; a node whose target has one keeps what it carries
InferredCall(e, target, args, found, arg_tys, expected) ==
  [k |-> "CallPtr", l |-> target, args |-> args,
   inf |-> IF found = NoSig
           THEN [params |-> arg_tys,
                 result |-> IF expected # "none" THEN expected ELSE "Void"]
           ELSE e.inf]

\* An expression as check_expr leaves it; expected is the function's return
\* type while a return statement is checked, "none" otherwise.
RECURSIVE SemaAnnotate(_, _, _)
SemaAnnotate(e, s, expected) ==
  CASE e.k \in {"Bin", "Index"} ->
         [e EXCEPT !.l = SemaAnnotate(e.l, s, expected),
                   !.r = SemaAnnotate(e.r, s, expected)]
    [] e.k \in {"Print", "Cast", "AllocArray", "AllocBytes"} ->
         [e EXCEPT !.l = SemaAnnotate(e.l, s, expected)]
    [] e.k = "CallFn" ->
         [e EXCEPT !.args = [i \in 1..Len(e.args) |-> SemaAnnotate(e.args[i], s, expected)]]
    [] e.k = "CallPtr" ->
         InferredCall(e, SemaAnnotate(e.l, s, expected),
                      [i \in 1..Len(e.args) |-> SemaAnnotate(e.args[i], s, expected)],
                      lookup_fnptr_sig(s, e.l),
                      [i \in 1..Len(e.args) |->
                         SemaExprType(SemaAnnotate(e.args[i], s, expected), s)],
                      expected)
    [] OTHER -> e

\* call: argument compatibility with the wanted parameter type
CallArgCompat(arg_ty, want) ==
  \/ arg_ty = want
  \/ arg_ty = "I64" /\ want \in {"F64", "F32"}
  \/ arg_ty = "F64" /\ want = "I64"
  \/ arg_ty = "Ptr" /\ want = "I64"
  \/ arg_ty = "I64" /\ want = "Ptr"

\* A bug: a reference to an unbound name is let through.
VarRefErrNone(s, name) == ""

\* check_expr, VarRef
VarRefErr(s, name) ==
  IF var_type_lookup(s, name) = "none" THEN "undefined variable" ELSE ""

\* A bug: a call to a name that is no built-in and no declared function passes.
UnknownCalleeErrNone(callee) == ""

\* check_expr, Call: the callee is neither built-in, extern nor user function
UnknownCalleeErr(callee) == "unknown function"

\* check_expr, call(target, args...): terr and tty are the verdict on and
\* the type of the target, found its signature if known, aerr and atys the
\* verdicts on and the types of the arguments
CheckCallPtr(e, terr, tty, found, aerr, atys) ==
  IF terr # "" THEN terr
  ELSE IF tty # "Ptr" THEN "call first argument must be a function pointer"
  ELSE IF found = NoSig /\ FirstErr(aerr) # "" THEN FirstErr(aerr)
  ELSE IF Len(e.args) # Len(IF found # NoSig THEN found.params ELSE e.inf.params)
  THEN "call: wrong number of arguments for function pointer"
  ELSE FirstErr([j \in 1..Len(e.args) |->
         IF aerr[j] # "" THEN aerr[j]
         ELSE IF ~CallArgCompat(atys[j], (IF found # NoSig THEN found.params
                                          ELSE e.inf.params)[j])
         THEN "call: argument type mismatch for function pointer"
         ELSE ""])

\* check_expr, print
CheckPrint(aerr, arg_ty) ==
  IF aerr # "" THEN aerr
  ELSE IF arg_ty \notin {"I64", "F64", "Ptr"}
  THEN "print expects i64, f64, or pointer argument"
  ELSE ""

\* check_expr, print(x [, stream]) as a call node with its argument list;
\* PrintOf(x) stands for the node print(x)
CheckPrintCall(e, aerr, atys) ==
  IF Len(e.args) \notin {1, 2} THEN "print expects 1 or 2 arguments"
  ELSE IF CheckPrint(aerr[1], atys[1]) # "" THEN CheckPrint(aerr[1], atys[1])
  ELSE IF Len(e.args) = 2 /\ aerr[2] # "" THEN aerr[2]
  ELSE IF Len(e.args) = 2 /\ atys[2] # "I64" THEN "print stream argument must be i64"
  ELSE ""

\* A bug: the number of arguments is not compared with the declaration.
CheckCallFnUncounted(e, sig, aerr, atys) ==
  FirstErr([j \in 1..(IF Len(e.args) < Len(sig.params) THEN Len(e.args)
                      ELSE Len(sig.params)) |->
         IF aerr[j] # "" THEN aerr[j]
         ELSE IF atys[j] # sig.params[j] THEN "argument type mismatch in call"
         ELSE ""])

\* check_expr, a call of an extern or user function with signature sig
CheckCallFn(e, sig, aerr, atys) ==
  IF Len(e.args) # Len(sig.params) THEN "call has wrong number of arguments"
  ELSE FirstErr([j \in 1..Len(e.args) |->
         IF aerr[j] # "" THEN aerr[j]
         ELSE IF atys[j] # sig.params[j] THEN "argument type mismatch in call"
         ELSE ""])

\* check_expr, alloc_array and alloc_bytes
CheckAllocArray(name, cerr, count_ty) ==
  IF ~is_alloc_type(name) THEN "alloc_array: unknown element type"
  ELSE IF cerr # "" THEN cerr
  ELSE IF count_ty # "I64" THEN "alloc_array: count must be i64"
  ELSE ""

CheckAllocBytes(cerr, size_ty) ==
  IF cerr # "" THEN cerr
  ELSE IF size_ty # "I64" THEN "alloc_bytes: size must be i64"
  ELSE ""

\* check_expr, base[i]
CheckIndex(cerr, base_ty, index_ty) ==
  IF cerr # "" THEN cerr
  ELSE IF base_ty # "Ptr" THEN "index: base must be a pointer (array)"
  ELSE IF index_ty # "I64" THEN "index: index must be i64"
  ELSE ""

\* check_expr, operand as to
CheckCast(to, oerr, from) ==
  IF oerr # "" THEN oerr
  ELSE IF to = "ptr"
  THEN (IF from # "Ptr" THEN "cast to ptr: operand must be a pointer" ELSE "")
  ELSE IF to \in {"i64", "i32", "f64", "f32"}
  THEN (IF from \notin {"I64", "I32", "F64", "F32"}
        THEN "cast to numeric type: operand must be i64, i32, f64, or f32"
        ELSE "")
  ELSE "cast: target type must be ptr, i64, i32, f64, or f32"

\* check_expr on an annotated expression: "" when accepted, else the message.
RECURSIVE SemaCheckExpr(_, _)
SemaCheckExpr(e, s) ==
  CASE e.k \in {"Int", "Float", "Str"} -> ""
    [] e.k = "Bin" -> FirstErr(<<SemaCheckExpr(e.l, s), SemaCheckExpr(e.r, s)>>)
    [] e.k = "GetFn" ->
         IF e.name \notin UserFnNames /\ e.name \notin ExternFnNames
         THEN "get_func_ptr: unknown function" ELSE ""
    [] e.k = "CallPtr" ->
         CheckCallPtr(e, SemaCheckExpr(e.l, s), SemaExprType(e.l, s),
                      lookup_fnptr_sig(s, e.l),
                      [i \in 1..Len(e.args) |-> SemaCheckExpr(e.args[i], s)],
                      [i \in 1..Len(e.args) |-> SemaExprType(e.args[i], s)])
    [] e.k = "Print" -> CheckPrint(SemaCheckExpr(e.l, s), SemaExprType(e.l, s))
    [] e.k = "CallFn" ->
         IF e.name = "print"
         THEN CheckPrintCall(e, [i \in 1..Len(e.args) |-> SemaCheckExpr(e.args[i], s)],
                             [i \in 1..Len(e.args) |-> SemaExprType(e.args[i], s)])
         ELSE IF e.name \in ExternFnNames \/ e.name \in UserFnNames
         THEN CheckCallFn(e, IF e.name \in ExternFnNames THEN ExternFns[e.name]
                                                         ELSE UserFns[e.name],
                          [i \in 1..Len(e.args) |-> SemaCheckExpr(e.args[i], s)],
                          [i \in 1..Len(e.args) |-> SemaExprType(e.args[i], s)])
         ELSE UnknownCalleeErr(e.name)
    [] e.k = "Var" -> VarRefErr(s, e.name)
    [] e.k = "AllocArray" ->
         CheckAllocArray(e.name, SemaCheckExpr(e.l, s), SemaExprType(e.l, s))
    [] e.k = "Index" ->
         CheckIndex(FirstErr(<<SemaCheckExpr(e.l, s), SemaCheckExpr(e.r, s)>>),
                    SemaExprType(e.l, s), SemaExprType(e.r, s))
    [] e.k = "AllocBytes" -> CheckAllocBytes(SemaCheckExpr(e.l, s), SemaExprType(e.l, s))
    [] e.k = "Cast" -> CheckCast(e.name, SemaCheckExpr(e.l, s), SemaExprType(e.l, s))
    [] OTHER -> "unsupported expression"

(***************************************************************************)
(* check_stmt.  The analyzer state s is                                    *)
(*   [vars, elems, fnptrs : the three scope stacks, ok, err].              *)
(* open is the number of enclosing blocks: every failure unwinds through   *)
(* them and each pops the scope it pushed.                                 *)
(***************************************************************************)
\* Expr::Kind::Call covers built-ins, direct and indirect calls
CallKinds == {"GetFn", "CallPtr", "CallFn", "Print"}

PopN(stack, n) == SubSeq(stack, 1, Len(stack) - n)

SemaFail(s, msg, open) ==
  [vars |-> PopN(s.vars, open), elems |-> PopN(s.elems, open),
   fnptrs |-> PopN(s.fnptrs, open), ok |-> FALSE, err |-> msg]

\* return false when check_expr has failed
FailIf(s, err, open) == IF err # "" THEN SemaFail(s, err, open) ELSE s

SemaPush(s) ==
  [s EXCEPT !.vars = Append(@, EmptyScope), !.elems = Append(@, EmptyScope),
            !.fnptrs = Append(@, EmptySigScope)]

\* A bug: the block's variable scope is merged into its parent on exit.
SemaPopMerging(s) ==
  [s EXCEPT !.vars = Append(PopN(@, 2),
                       [n \in Names |-> IF s.vars[Len(s.vars)][n] # "none"
                                        THEN s.vars[Len(s.vars)][n]
                                        ELSE s.vars[Len(s.vars) - 1][n]]),
            !.elems = PopN(@, 1), !.fnptrs = PopN(@, 1)]

SemaPop(s) ==
  [s EXCEPT !.vars = PopN(@, 1), !.elems = PopN(@, 1), !.fnptrs = PopN(@, 1)]

\* The scope entries a let writes: the variable's type, the signature its
\* initializer carries, its array-element annotation
SemaBindLet(s, name, init, let_ty, sig, elem_ty) ==
  [s EXCEPT !.vars[Len(s.vars)][name] = let_ty,
            !.fnptrs[Len(s.fnptrs)][name] = IF let_ty = "Ptr" /\ sig # NoSig THEN sig ELSE @,
            !.elems[Len(s.elems)][name] =
               IF elem_ty # "Void" THEN elem_ty
               ELSE IF let_ty = "Ptr" /\ init.k \in CallKinds THEN "Ptr"
               ELSE @]

\* A let whose initializer check_expr has given the verdict err and
\* expr_type the type let_ty
SemaLetChecked(s, name, init, err, let_ty, open) ==
  IF err # "" THEN SemaFail(s, err, open)
  ELSE IF s.vars[Len(s.vars)][name] # "none"
  THEN SemaFail(s, "duplicate variable", open)
  ELSE SemaBindLet(s, name, init, let_ty, lookup_fnptr_sig(s, init),
                   get_array_element_type(init, s))

\* Stmt::Kind::Let
SemaLet(s, name, init, open) ==
  SemaLetChecked(s, name, init, SemaCheckExpr(init, s), SemaExprType(init, s), open)

\* A top-level LetBinding item
SemaLetBinding(s, name, init) ==
  SemaLetChecked(s, name, init, SemaCheckExpr(init, s), SemaExprType(init, s), 0)

AssignCompat(var_ty, val_ty) ==
  \/ var_ty = val_ty
  \/ var_ty = "Ptr" /\ val_ty = "I64"
  \/ var_ty = "I64" /\ val_ty = "Ptr"

\* An assignment whose sides check_expr has given the verdict err; var_ty
\* is the type of the target (for an element, of the array's elements),
\* val_ty that of the value, sig the signature the value carries
SemaAssignChecked(s, lhs, err, var_ty, val_ty, sig, open) ==
  IF err # "" THEN SemaFail(s, err, open)
  ELSE IF lhs.k = "Var"
  THEN IF ~AssignCompat(var_ty, val_ty)
       THEN SemaFail(s, "assignment type mismatch", open)
       ELSE IF var_ty = "Ptr" /\ val_ty = "Ptr" /\ sig # NoSig
       THEN [s EXCEPT !.fnptrs[Len(s.fnptrs)][lhs.name] = sig]
       ELSE s
  ELSE IF lhs.k = "Index"
  THEN IF ~AssignCompat(var_ty, val_ty)
       THEN SemaFail(s, "assignment type mismatch for array element", open)
       ELSE s
  ELSE SemaFail(s, "assignment target must be a variable or index", open)

\* Stmt::Kind::Assign
SemaAssign(s, lhs, init, open) ==
  SemaAssignChecked(s, lhs,
                    FirstErr(<<SemaCheckExpr(lhs, s), SemaCheckExpr(init, s)>>),
                    IF lhs.k = "Index" THEN IndexElemType(get_array_element_type(lhs.l, s))
                    ELSE SemaExprType(lhs, s),
                    SemaExprType(init, s), lookup_fnptr_sig(s, init), open)

\* Stmt::Kind::Expr, and a top-level expression item
SemaExprStmt(s, e, open) == FailIf(s, SemaCheckExpr(e, s), open)

\* A return inside def whose value check_expr has given the verdict err
\* and expr_type the type ty
SemaReturnChecked(s, def, err, ty, open) ==
  IF err # "" THEN SemaFail(s, err, open)
  ELSE IF ty # UserFns[def].result
  THEN SemaFail(s, "return type does not match function return type", open)
  ELSE s

\* Stmt::Kind::Return; def is "top" outside any function
SemaReturn(s, def, e, open) ==
  IF def = "top" THEN SemaFail(s, "return only allowed inside a function", open)
  ELSE SemaReturnChecked(s, def, SemaCheckExpr(e, s), SemaExprType(e, s), open)

\* Stmt::Kind::If up to the start of the then-body
PushUnlessFailed(s, err, open) ==
  IF err # "" THEN SemaFail(s, err, open) ELSE SemaPush(s)

SemaIfEnter(s, cond, open) == PushUnlessFailed(s, SemaCheckExpr(cond, s), open)

\* Stmt nodes.  A For carries the C-style header the analyzer handles:
\* for_init (a let or an assignment, or none), cond, for_update.
Stmt(kind, name, lhs, e) ==
  [kind |-> kind, name |-> name, lhs |-> lhs, e |-> e,
   initk |-> "none", cond |-> IntLit, hasupd |-> FALSE, ulhs |-> IntLit, ue |-> IntLit]

LetStmt(name, init) == Stmt("let", name, IntLit, init)
AssignStmt(lhs, init) == Stmt("assign", "", lhs, init)
ExprStmt(e) == Stmt("expr", "", IntLit, e)
ReturnStmt(e) == Stmt("return", "", IntLit, e)
IfStmt(cond) == Stmt("if", "", IntLit, cond)
ElseMark == Stmt("else", "", IntLit, IntLit)
EndMark == Stmt("end", "", IntLit, IntLit)

ForStmt(initk, name, lhs, e, cond, hasupd, ulhs, ue) ==
  [kind |-> "for", name |-> name, lhs |-> lhs, e |-> e,
   initk |-> initk, cond |-> cond, hasupd |-> hasupd, ulhs |-> ulhs, ue |-> ue]

\* for_init of a For that is a let, in the scope the loop has just
\* pushed; err and ty are check_expr's verdict on and the type of init
SemaForInitLet(s1, name, err, ty, open) ==
  IF err # "" THEN SemaFail(s1, err, open + 1)
  ELSE IF s1.vars[Len(s1.vars)][name] # "none"
  THEN SemaFail(s1, "duplicate variable", open + 1)
  ELSE [s1 EXCEPT !.vars[Len(s1.vars)][name] = ty]

\* for_init of a For
SemaForInit(s1, st, open) ==
  CASE st.initk = "let" ->
         The({SemaForInitLet(s1, st.name, SemaCheckExpr(init, s1),
                             SemaExprType(init, s1), open) :
                init \in {SemaAnnotate(st.e, s1, "none")}})
    [] st.initk = "assign" ->
         The({SemaAssign(s1, b[1], b[2], open + 1) :
                b \in {<<SemaAnnotate(st.lhs, s1, "none"), SemaAnnotate(st.e, s1, "none")>>}})
    [] OTHER -> s1

\* cond of a For, after for_init
SemaForCond(s2, st, open) ==
  IF ~s2.ok THEN s2
  ELSE FailIf(s2, SemaCheckExpr(SemaAnnotate(st.cond, s2, "none"), s2), open + 1)

\* for_update of a For, after cond
SemaForUpdate(s3, st, open) ==
  IF ~s3.ok \/ ~st.hasupd THEN s3
  ELSE The({SemaAssign(s3, b[1], b[2], open + 1) :
              b \in {<<SemaAnnotate(st.ulhs, s3, "none"), SemaAnnotate(st.ue, s3, "none")>>}})

\* Stmt::Kind::For up to the start of the body: push, for_init, cond,
\* for_update, each on the state the one before has left
SemaForEnter(s, st, open) ==
  The({SemaForUpdate(s3, st, open) :
         s3 \in {SemaForCond(s2, st, open) :
                   s2 \in {SemaForInit(s1, st, open) : s1 \in {SemaPush(s)}}}})

\* The return type expected while a return statement is checked
ExpectedOf(st, def) ==
  IF st.kind = "return" /\ def # "top" THEN UserFns[def].result ELSE "none"

\* What check_expr leaves of a statement's expressions: the call nodes
\* carry the signatures inferred for them
Annotated(st, s, def) ==
  [st EXCEPT !.e = SemaAnnotate(st.e, s, ExpectedOf(st, def)),
             !.lhs = SemaAnnotate(st.lhs, s, "none")]

\* check_stmt on one statement (for a block statement: up to its body), and
\* the top-level loop of check(); sta is Annotated(st, s, def)
SemaStep(s, def, sta, open) ==
  CASE sta.kind = "let" ->
         IF def = "top" /\ open = 0 THEN SemaLetBinding(s, sta.name, sta.e)
         ELSE SemaLet(s, sta.name, sta.e, open)
    [] sta.kind = "assign" -> SemaAssign(s, sta.lhs, sta.e, open)
    [] sta.kind = "expr" -> SemaExprStmt(s, sta.e, open)
    [] sta.kind = "return" -> SemaReturn(s, def, sta.e, open)
    [] sta.kind = "if" -> SemaIfEnter(s, sta.e, open)
    [] sta.kind = "for" -> SemaForEnter(s, sta, open)
    [] sta.kind = "else" -> SemaPush(SemaPop(s))
    [] sta.kind = "end" -> SemaPop(s)

\* The state check() and check_fn_def start the walk in
SemaStart(def) ==
  IF def = "top"
  THEN [vars |-> <<EmptyScope>>, elems |-> <<EmptyScope>>,
        fnptrs |-> <<EmptySigScope>>, ok |-> TRUE, err |-> ""]
  ELSE LET ps  == ParamNames[def]
           tys == UserFns[def].params
       IN  [vars |-> <<[n \in Names |->
                          IF \E j \in 1..Len(ps) : ps[j] = n
                          THEN tys[CHOOSE j \in 1..Len(ps) : ps[j] = n] ELSE "none"]>>,
            elems |-> <<[n \in Names |->
                          IF \E j \in 1..Len(ps) : ps[j] = n /\ tys[j] = "Ptr"
                          THEN "Ptr" ELSE "none"]>>,
            fnptrs |-> <<EmptySigScope>>, ok |-> TRUE, err |-> ""]

(***************************************************************************)
(* Lexical scoping as the language defines it, kept beside the analyzer:   *)
(* for every scope the names it binds and, for each, the function whose    *)
(* address the variable was last given ("other" when it holds none).       *)
(***************************************************************************)
RECURSIVE FreeVars(_)
FreeVars(e) ==
  CASE e.k = "Var" -> {e.name}
    [] e.k \in {"Bin", "Index"} -> FreeVars(e.l) \cup FreeVars(e.r)
    [] e.k \in {"Print", "Cast", "AllocArray", "AllocBytes"} -> FreeVars(e.l)
    [] e.k = "CallFn" -> UNION {FreeVars(e.args[i]) : i \in 1..Len(e.args)}
    [] e.k = "CallPtr" ->
         FreeVars(e.l) \cup UNION {FreeVars(e.args[i]) : i \in 1..Len(e.args)}
    [] OTHER -> {}

GhostVisible(g) == {n \in Names : ScopeLookup(g.scopes, n, "none") # "none"}

OriginOf(e, g) ==
  CASE e.k = "GetFn" -> IF e.name \in UserFnNames \cup ExternFnNames THEN e.name ELSE "other"
    [] e.k = "Var" ->
         LET o == ScopeLookup(g.scopes, e.name, "none")
         IN  IF o = "none" THEN "other" ELSE o
    [] OTHER -> "other"

GhostBind(g, name, e) ==
  [g EXCEPT !.scopes[Len(g.scopes)][name] = OriginOf(e, g)]

\* An assignment changes the variable the name resolves to.
GhostAssign(g, lhs, e) ==
  IF lhs.k = "Var" /\ lhs.name \in GhostVisible(g)
  THEN LET idx == MaxOf({i \in 1..Len(g.scopes) : g.scopes[i][lhs.name] # "none"})
       IN  [g EXCEPT !.scopes[idx][lhs.name] = OriginOf(e, g)]
  ELSE g

GhostPush(g) == [g EXCEPT !.scopes = Append(@, EmptyScope)]

GhostPop(g) ==
  LET top == g.scopes[Len(g.scopes)]
  IN  [scopes |-> PopN(g.scopes, 1),
       dead |-> g.dead \cup {n \in Names : top[n] # "none"}]

GhostStep(g, st) ==
  CASE st.kind = "let" -> GhostBind(g, st.name, st.e)
    [] st.kind = "assign" -> GhostAssign(g, st.lhs, st.e)
    [] st.kind = "if" -> GhostPush(g)
    [] st.kind = "for" ->
         LET g1 == GhostPush(g)
             g2 == CASE st.initk = "let" -> GhostBind(g1, st.name, st.e)
                     [] st.initk = "assign" -> GhostAssign(g1, st.lhs, st.e)
                     [] OTHER -> g1
         IN  IF st.hasupd THEN GhostAssign(g2, st.ulhs, st.ue) ELSE g2
    [] st.kind = "else" -> GhostPush(GhostPop(g))
    [] st.kind = "end" -> GhostPop(g)
    [] OTHER -> g

GhostStart(def) ==
  [scopes |-> <<[n \in Names |->
                  IF def # "top" /\ \E j \in 1..Len(ParamNames[def]) : ParamNames[def][j] = n
                  THEN "other" ELSE "none"]>>,
   dead |-> {}]

\* The names a statement refers to as variables that no enclosing scope
\* binds at the point of the reference.
UnboundRefs(st, g) ==
  LET V       == GhostVisible(g)
      loopvar == IF st.kind = "for" /\ st.initk = "let" THEN {st.name} ELSE {}
  IN  ((FreeVars(st.e) \cup FreeVars(st.lhs)) \ V)
      \cup ((FreeVars(st.cond) \cup FreeVars(st.ulhs) \cup FreeVars(st.ue)) \ (V \cup loopvar))

\* The call nodes of an expression
RECURSIVE CallNodes(_)
CallNodes(e) ==
  LET sub == CASE e.k \in {"Bin", "Index"} -> CallNodes(e.l) \cup CallNodes(e.r)
               [] e.k \in {"Print", "Cast", "AllocArray", "AllocBytes"} -> CallNodes(e.l)
               [] e.k = "CallFn" -> UNION {CallNodes(e.args[i]) : i \in 1..Len(e.args)}
               [] e.k = "CallPtr" ->
                    CallNodes(e.l) \cup UNION {CallNodes(e.args[i]) : i \in 1..Len(e.args)}
               [] OTHER -> {}
  IN  IF e.k \in CallKinds THEN {e} \cup sub ELSE sub

\* A call node names a known callee, or is an indirect call with a signature:
\* one the analyzer finds for its target, or one stored on the node.
CallResolved(c, s) ==
  CASE c.k \in {"Print", "GetFn"} -> TRUE
    [] c.k = "CallFn" -> c.name \in ExternFnNames \cup UserFnNames \cup {"print"}
    [] c.k = "CallPtr" ->
         \/ lookup_fnptr_sig(s, c.l) # NoSig
         \/ Len(c.inf.params) = Len(c.args)

\* The call nodes of an annotated statement
StmtCalls(sta) ==
  CallNodes(sta.e) \cup CallNodes(sta.lhs)
    \cup CallNodes(sta.cond) \cup CallNodes(sta.ulhs) \cup CallNodes(sta.ue)

(***************************************************************************)
(* The analyzer walking one function body or the top-level items, one      *)
(* statement per step.  last records what the walk has just looked at:     *)
(* the names the statement refers to that no scope binds, those of them    *)
(* bound only in blocks already closed, and whether one of its call nodes  *)
(* has neither a known callee nor a signature.                             *)
(***************************************************************************)
Observe(sta, s, g) ==
  [kind |-> sta.kind,
   free |-> UnboundRefs(sta, g),
   dead |-> UnboundRefs(sta, g) \cap g.dead,
   unresolved |-> \E c \in StmtCalls(sta) : ~CallResolved(c, s),
   indirect |-> \E c \in StmtCalls(sta) : c.k = "CallPtr",
   sigs |-> {}, bins |-> {}]

BlocksAfter(st) ==
  CASE st.kind = "if" -> Append(blocks, "then")
    [] st.kind = "for" -> Append(blocks, "for")
    [] st.kind = "else" -> [blocks EXCEPT ![Len(blocks)] = "else"]
    [] st.kind = "end" -> PopN(blocks, 1)
    [] OTHER -> blocks

\* The walk goes on while nothing has been rejected.
WalkEnabled == sema.ok

\* One statement of the walk: sta is what check_expr leaves of it
SemaWalk(st) ==
  /\ WalkEnabled
  /\ \E sta \in {Annotated(st, sema, sdef)} :
       /\ \E s2 \in {SemaStep(sema, sdef, sta, Len(blocks))} :
            /\ sema' = s2
            /\ blocks' = IF s2.ok THEN BlocksAfter(st) ELSE <<>>
            /\ ghost' = IF s2.ok THEN GhostStep(ghost, st) ELSE ghost
       /\ last' = Observe(sta, sema, ghost)
  /\ nstmts' = IF st.kind \in {"else", "end"} THEN nstmts ELSE nstmts + 1
  /\ UNCHANGED <<sdef, cg>>
  /\ UNCHANGED notCompVars

\* The expressions the walk is fed
SemaOperands == {IntLit, FloatLit, VarRef("x"), VarRef("y")}

SemaLetInits ==
  {IntLit, FloatLit, VarRef("x"), VarRef("y"), GetFuncPtr("f"),
   AllocBytesOf(IntLit), CallPtr(VarRef("p"), <<IntLit>>)}

SemaExprs ==
  {PrintOf(VarRef("x")), PrintOf(VarRef("y")),
   BinaryOp("+", VarRef("x"), VarRef("y")),
   CallFn("f", <<IntLit>>), CallFn("f", <<VarRef("y")>>),
   CallFn("cos", <<FloatLit>>), CallFn("h", <<IntLit>>),
   CallPtr(VarRef("p"), <<IntLit>>), CallPtr(VarRef("p"), <<>>),
   CallPtr(AllocBytesOf(IntLit), <<FloatLit>>),
   CallPtr(GetFuncPtr("h"), <<IntLit>>),
   IndexOf(VarRef("p"), VarRef("x"))}

SemaInit ==
  /\ LayoutIdle /\ RtIdle /\ ImpIdle /\ LaterIdle("none")
  /\ sdef \in {"top", "f"}
  /\ sema = SemaStart(sdef)
  /\ cg = CgIdle
  /\ blocks = <<>>
  /\ ghost = GhostStart(sdef)
  /\ nstmts = 0
  /\ last = [kind |-> "none", free |-> {}, dead |-> {}, unresolved |-> FALSE,
             indirect |-> FALSE, sigs |-> {}, bins |-> {}]

\* Statements follow one another only as the grammar nests them.
SemaWalkLet ==
  \E name \in {"x", "y", "p"}, init \in SemaLetInits :
    /\ nstmts < MaxStmts
    /\ SemaWalk(LetStmt(name, init))

SemaWalkAssign ==
  \E lhs \in {VarRef("x"), VarRef("y"), VarRef("p")},
     e \in {IntLit, VarRef("x"), GetFuncPtr("g")} :
    /\ nstmts < MaxStmts
    /\ SemaWalk(AssignStmt(lhs, e))

SemaWalkExpr ==
  \E e \in SemaExprs :
    /\ nstmts < MaxStmts
    /\ SemaWalk(ExprStmt(e))

SemaWalkReturn ==
  \E e \in SemaOperands \cup {CallPtr(AllocBytesOf(IntLit), <<IntLit>>)} :
    /\ nstmts < MaxStmts
    /\ SemaWalk(ReturnStmt(e))

SemaWalkIf ==
  \E cond \in SemaOperands :
    /\ nstmts < MaxStmts /\ Len(blocks) < MaxDepth
    /\ SemaWalk(IfStmt(cond))

SemaWalkElse ==
  /\ blocks # <<>> /\ blocks[Len(blocks)] = "then"
  /\ SemaWalk(ElseMark)

SemaWalkEnd ==
  /\ blocks # <<>>
  /\ SemaWalk(EndMark)

SemaWalkFor ==
  \E initk \in {"none", "let", "assign"}, cond \in {IntLit, VarRef("y")}, hasupd \in BOOLEAN :
    /\ nstmts < MaxStmts /\ Len(blocks) < MaxDepth
    /\ SemaWalk(ForStmt(initk, IF initk = "let" THEN "y" ELSE "",
                        IF initk = "assign" THEN VarRef("y") ELSE IntLit, IntLit, cond, hasupd,
                        IF hasupd THEN VarRef("y") ELSE IntLit, IntLit))

SemaNext ==
  \/ SemaWalkLet
  \/ SemaWalkAssign
  \/ SemaWalkExpr
  \/ SemaWalkReturn
  \/ SemaWalkIf
  \/ SemaWalkElse
  \/ SemaWalkEnd
  \/ SemaWalkFor

SpecSema == SemaInit /\ [][SemaNext]_vars

\* C5: once the analyzer has accepted what it has walked, the statement it
\* has just checked holds no call that lacks both a known callee (extern
\* function, user function or built-in) and a signature (found for the
\* target, or inferred and stored on the call node).
C5_CallsResolved == sema.ok => ~last.unresolved

\* An accepted indirect call
C5_Witness == sema.ok /\ last.kind = "expr" /\ last.indirect

\* C6: a name bound inside a then-body, else-body or for-loop (its loop
\* variable included) is out of the analyzer's scopes once the block has
\* ended, the then-body's names are out of scope in the else-body, and a
\* later statement that refers to such a name, not bound in an enclosing
\* scope, is rejected.
C6_BlockScoped ==
  /\ sema.ok => {n \in Names : var_type_lookup(sema, n) # "none"} = GhostVisible(ghost)
  /\ last.dead # {} => ~sema.ok

C6_Witness == last.dead # {} /\ ~sema.ok /\ sema.err = "undefined variable"

\* C7: a statement with a variable reference whose name no scope on the
\* scope stack binds at the point of the reference makes the analyzer
\* reject the program.
C7_UnboundRejected == last.free # {} => ~sema.ok

C7_Witness ==
  /\ last.kind = "expr" /\ last.free = {"y"} /\ last.dead = {}
  /\ ~sema.ok /\ sema.err = "undefined variable" /\ nstmts = 2

(***************************************************************************)
(* The IR emitter (codegen.cpp).  The emitter state c is                   *)
(*   slots, elems, fnptrs : the scope stacks of CodegenEnv (for a slot the *)
(*                          allocated IR type of its alloca),              *)
(*   var_types            : the flat name -> type map env.var_types,       *)
(*   btype                : binding_type of the top-level bindings,        *)
(*   ok, err.                                                              *)
(* An emitted value is represented by its IR type; "null" is a null        *)
(* Value*, "error" a null Value* with s_codegen_error set.                 *)
(***************************************************************************)
ffi_type_to_llvm(t) ==
  CASE t = "I64" -> "i64" [] t = "I32" -> "i32" [] t = "F64" -> "double"
    [] t = "F32" -> "float" [] t = "Ptr" -> "ptr" [] OTHER -> "void"

NoValue == {"null", "error"}

\* The first of the values that is no value, "" when all are values
FirstNull(vals) ==
  LET bad == {i \in 1..Len(vals) : vals[i] \in NoValue}
  IN  IF bad = {} THEN "" ELSE vals[CHOOSE i \in bad : \A j \in bad : i <= j]

\* codegen.cpp expr_type; local tells whether local_types is passed
RECURSIVE CgExprType(_, _, _)
CgExprType(e, c, local) ==
  CASE e.k = "Int" -> "I64"
    [] e.k = "Float" -> "F64"
    [] e.k = "Str" -> "Ptr"
    [] e.k = "Bin" ->
         IF CgExprType(e.l, c, local) = "F64" \/ CgExprType(e.r, c, local) = "F64"
         THEN "F64" ELSE "I64"
    [] e.k = "Var" ->
         IF local /\ c.var_types[e.name] # "none" THEN c.var_types[e.name]
         ELSE IF c.btype[e.name] # "none" THEN c.btype[e.name]
         ELSE "Void"
    [] e.k = "GetFn" -> "Ptr"
    [] e.k = "CallPtr" ->
         IF e.l.k = "GetFn" /\ NamedFnSig(e.l.name) # NoSig
         THEN NamedFnSig(e.l.name).result ELSE "Void"
    [] e.k = "Print" -> "Void"
    [] e.k = "CallFn" ->
         IF e.name \in ExternFnNames THEN ExternFns[e.name].result
         ELSE IF e.name \in UserFnNames THEN UserFns[e.name].result
         ELSE "Void"
    [] e.k \in {"AllocArray", "AllocBytes"} -> "Ptr"
    [] e.k = "Cast" -> IF e.name = "ptr" THEN "Ptr" ELSE "Void"
    [] e.k = "Index" -> "I64"
    [] OTHER -> "Void"

codegen_lookup_fnptr_sig(c, e) ==
  CASE e.k = "Var" ->
         IF ScopeLookup(c.fnptrs, e.name, NoSig) # NoSig
         THEN ScopeLookup(c.fnptrs, e.name, NoSig) ELSE NamedFnSig(e.name)
    [] e.k = "GetFn" -> NamedFnSig(e.name)
    [] OTHER -> NoSig

vars_lookup(c, name) == ScopeLookup(c.slots, name, "none")

array_element_type_from_expr(e, c) ==
  CASE e.k = "Var" ->
         VoidIfNone(ScopeLookup(c.elems, e.name, "none"))
    [] e.k = "AllocArray" -> ElemTypeOfName(e.name)
    [] OTHER -> "Void"

coerce_value_to_type(have, want) ==
  IF have = want THEN have
  ELSE IF want = "double" /\ have \in {"i64", "i32", "float"} THEN want
  ELSE IF want = "float" /\ have \in {"double", "i64", "i32"} THEN want
  ELSE IF want = "i64" /\ have \in {"double", "float", "i32", "ptr"} THEN want
  ELSE IF want = "i32" /\ have \in {"i64", "double", "float"} THEN want
  ELSE IF want = "ptr" /\ have \in {"ptr", "i64"} THEN want
  ELSE "null"

\* The signature emit_expr lowers call(target, ...) with; NoSig when it
\* cannot determine one
SigOrInferred(found, e) ==
  IF found # NoSig THEN found
  ELSE IF Len(e.inf.params) = Len(e.args) THEN e.inf
  ELSE NoSig

CgCallSig(e, c) == SigOrInferred(codegen_lookup_fnptr_sig(c, e.l), e)

\* emit_expr, BinaryOp: is_f64
BinIsF64(e, c) ==
  CgExprType(e.l, c, TRUE) = "F64" \/ CgExprType(e.r, c, TRUE) = "F64"

\* A user function call converts an argument to the parameter's IR type
UserArgConv(have, want) ==
  \/ have = want
  \/ want = "double" /\ have = "i64"
  \/ want = "i64" /\ have = "double"
  \/ want = "ptr" /\ have = "ptr"

CastValue(v, to) ==
  CASE to = "ptr" -> IF v = "ptr" THEN v ELSE "null"
    [] to = "f64" -> IF v \in {"double", "i64", "i32", "float"} THEN "double" ELSE "null"
    [] to = "f32" -> IF v \in {"double", "i64", "i32", "float"} THEN "float" ELSE "null"
    [] to = "i64" -> IF v \in {"double", "i64", "i32", "float"} THEN "i64" ELSE "null"
    [] to = "i32" -> IF v \in {"double", "i64", "i32", "float"} THEN "i32" ELSE "null"
    [] OTHER -> v

\* if (!v) return nullptr; else the value made of v
PassNull(v, result) == IF v \in NoValue THEN v ELSE result

\* if any of the values is none, that one; else result
UnlessNull(bad, result) == IF bad # "" THEN bad ELSE result

\* emit_expr, BinaryOp on the operand values lv and rv
BinValue(lv, rv, is_f64) ==
  IF "error" \in {lv, rv} THEN "error"
  ELSE IF lv \in NoValue \/ rv \in NoValue THEN "null"
  ELSE IF is_f64 THEN "double" ELSE "i64"

\* emit_expr, call(target, args...) with signature sig, on the target's
\* value tv and the argument values avs
EmitCallPtr(sig, tv, avs) ==
  IF sig = NoSig THEN "error"
  ELSE IF tv \in NoValue THEN tv
  ELSE UnlessNull(FirstNull([j \in 1..Len(sig.params) |->
                     IF j > Len(avs) THEN "null"
                     ELSE PassNull(avs[j], coerce_value_to_type(avs[j],
                                             ffi_type_to_llvm(sig.params[j])))]),
                  IF sig.result = "Void" THEN "i64" ELSE ffi_type_to_llvm(sig.result))

\* emit_expr, a call of the user function with signature sig
EmitUserCall(sig, avs) ==
  UnlessNull(FirstNull([j \in 1..Len(avs) |->
                IF avs[j] \notin NoValue
                   /\ ~UserArgConv(avs[j], ffi_type_to_llvm(sig.params[j]))
                THEN "null" ELSE avs[j]]),
             IF sig.result = "Void" THEN "null" ELSE ffi_type_to_llvm(sig.result))

\* emit_expr, a call of the extern function with signature sig
EmitExternCall(sig, avs) ==
  UnlessNull(FirstNull(avs),
             IF sig.result = "F64" THEN "double"
             ELSE IF sig.result = "Ptr" THEN "ptr"
             ELSE "i64")

\* emit_expr, base[i] on the values of base and index; e0 is the element
\* type array_element_type_from_expr gives for the base
IndexValue(bv, iv, e0) ==
  IF "error" \in {bv, iv} THEN "error"
  ELSE IF bv \in NoValue \/ iv \in NoValue THEN "null"
  ELSE IF e0 = "F64" THEN "double"
  ELSE IF e0 = "Ptr" THEN "ptr"
  ELSE "i64"

NullIfNone(slot) == IF slot = "none" THEN "null" ELSE slot

\* emit_expr: the IR type of the value the expression is lowered to
RECURSIVE CgEmit(_, _)
CgEmit(e, c) ==
  CASE e.k = "Int" -> "i64"
    [] e.k = "Float" -> "double"
    [] e.k = "Str" -> "ptr"
    [] e.k = "Var" -> NullIfNone(vars_lookup(c, e.name))
    [] e.k = "Bin" -> BinValue(CgEmit(e.l, c), CgEmit(e.r, c), BinIsF64(e, c))
    [] e.k = "GetFn" -> IF e.name \in UserFnNames THEN "ptr" ELSE "null"
    [] e.k = "CallPtr" ->
         EmitCallPtr(CgCallSig(e, c), CgEmit(e.l, c),
                     [j \in 1..Len(e.args) |-> CgEmit(e.args[j], c)])
    [] e.k = "Print" -> PassNull(CgEmit(e.l, c), "void")
    [] e.k = "CallFn" ->
         IF e.name \in UserFnNames
         THEN EmitUserCall(UserFns[e.name], [j \in 1..Len(e.args) |-> CgEmit(e.args[j], c)])
         ELSE IF e.name \in ExternFnNames
         THEN EmitExternCall(ExternFns[e.name], [j \in 1..Len(e.args) |-> CgEmit(e.args[j], c)])
         ELSE "null"
    [] e.k \in {"AllocArray", "AllocBytes"} -> PassNull(CgEmit(e.l, c), "ptr")
    [] e.k = "Index" ->
         IndexValue(CgEmit(e.l, c), CgEmit(e.r, c), array_element_type_from_expr(e.l, c))
    [] e.k = "Cast" -> PassNull(CgEmit(e.l, c), CastValue(CgEmit(e.l, c), e.name))
    [] OTHER -> "null"

(***************************************************************************)
(* emit_stmt and the top-level item loop.  A failing emit_stmt returns     *)
(* without popping the scopes its enclosing blocks pushed.                 *)
(***************************************************************************)
CgFail(c, msg) == [c EXCEPT !.ok = FALSE, !.err = msg]

CgPush(c) ==
  [c EXCEPT !.slots = Append(@, EmptyScope), !.elems = Append(@, EmptyScope),
            !.fnptrs = Append(@, EmptySigScope)]

CgPop(c) ==
  [c EXCEPT !.slots = PopN(@, 1), !.elems = PopN(@, 1), !.fnptrs = PopN(@, 1)]

\* The array-element annotation a let records for its variable
CgBindElemAs(c, name, init, is_ptr, elem_ty) ==
  [c EXCEPT !.elems[Len(c.elems)][name] =
               IF elem_ty # "Void" THEN elem_ty
               ELSE IF is_ptr /\ init.k \in CallKinds THEN "Ptr"
               ELSE @]

CgBindElem(c, name, init, is_ptr) ==
  CgBindElemAs(c, name, init, is_ptr, array_element_type_from_expr(init, c))

\* emit_stmt, Let, before the initializer is lowered: the variable's type
\* is recorded and, when it is known, its slot created
CgLetEnv(c, name, let_ty) ==
  IF let_ty = "Void" THEN [c EXCEPT !.var_types[name] = let_ty]
  ELSE [c EXCEPT !.var_types[name] = let_ty,
                 !.slots[Len(c.slots)][name] = ffi_type_to_llvm(let_ty)]

\* emit_stmt, Let, once the initializer is lowered to v in c2; sig is the
\* signature the initializer carries
CgLetStore(c2, name, init, let_ty, v, sig) ==
  IF v \in NoValue THEN CgFail(c2, "top-level if/statement emit failed")
  ELSE IF let_ty # "Void"
  THEN CgBindElem([c2 EXCEPT !.fnptrs[Len(c2.fnptrs)][name] =
                                IF let_ty = "Ptr" /\ sig # NoSig THEN sig ELSE @],
                  name, init, let_ty = "Ptr")
  ELSE CgBindElem([c2 EXCEPT !.slots[Len(c2.slots)][name] = v], name, init, v = "ptr")

CgLetIn(c2, name, init, let_ty) ==
  CgLetStore(c2, name, init, let_ty, CgEmit(init, c2), codegen_lookup_fnptr_sig(c2, init))

\* emit_stmt, Stmt::Kind::Let
CgLet(c, name, init) ==
  CgLetIn(CgLetEnv(c, name, CgExprType(init, c, TRUE)), name, init,
          CgExprType(init, c, TRUE))

\* The IR type of a top-level binding's global: from binding_type when it
\* gives one, else the type of the lowered initializer
BindingLlvmType(ty0, v) ==
  IF ty0 = "F64" THEN "double"
  ELSE IF ty0 = "Ptr" THEN "ptr"
  ELSE IF ty0 # "Void" THEN "i64"
  ELSE v

BindingVarType(ty0, llvm_ty) ==
  IF ty0 # "Void" THEN ty0
  ELSE IF llvm_ty = "double" THEN "F64"
  ELSE IF llvm_ty = "ptr" THEN "Ptr"
  ELSE "I64"

CgBindGlobal(c, name, init, ty0, ty, llvm_ty, sig) ==
  CgBindElem([c EXCEPT !.var_types[name] = ty,
                       !.btype[name] = ty0,
                       !.slots[Len(c.slots)][name] = llvm_ty,
                       !.fnptrs[Len(c.fnptrs)][name] =
                          IF ty = "Ptr" /\ sig # NoSig THEN sig ELSE @],
             name, init, ty = "Ptr")

CgLetBindingTyped(c, name, init, ty0, v) ==
  IF v \in NoValue THEN CgFail(c, "top-level let init expression failed")
  ELSE CgBindGlobal(c, name, init, ty0, BindingVarType(ty0, BindingLlvmType(ty0, v)),
                    BindingLlvmType(ty0, v), codegen_lookup_fnptr_sig(c, init))

\* A top-level LetBinding item
CgLetBinding(c, name, init) ==
  CgLetBindingTyped(c, name, init, CgExprType(init, c, FALSE), CgEmit(init, c))

\* Assign to a variable: the stored value is converted to the slot's type
AssignConv(slot, val) ==
  \/ val = slot
  \/ slot = "double" /\ val = "i64"
  \/ slot = "i64" /\ val = "double"
  \/ slot = "ptr" /\ val = "ptr"
  \/ slot = "i64" /\ val = "ptr"

\* emit_stmt, Assign to a variable with the given slot, of the value val
\* carrying the signature sig
CgAssignVar(c, name, val, slot, sig) ==
  IF slot = "none" \/ ~AssignConv(slot, val)
  THEN CgFail(c, "top-level if/statement emit failed")
  ELSE IF slot = "ptr" /\ sig # NoSig
  THEN [c EXCEPT !.fnptrs[Len(c.fnptrs)][name] = sig]
  ELSE c

\* emit_stmt, Assign to base[i] on the values of base and index
CgAssignIndex(c, bv, iv) ==
  IF bv \in NoValue \/ iv \in NoValue
  THEN CgFail(c, "top-level if/statement emit failed") ELSE c

CgAssignValue(c, lhs, init, val) ==
  IF val \in NoValue THEN CgFail(c, "top-level if/statement emit failed")
  ELSE IF lhs.k = "Var"
  THEN CgAssignVar(c, lhs.name, val, vars_lookup(c, lhs.name),
                   codegen_lookup_fnptr_sig(c, init))
  ELSE IF lhs.k = "Index"
  THEN CgAssignIndex(c, CgEmit(lhs.l, c), CgEmit(lhs.r, c))
  ELSE CgFail(c, "top-level if/statement emit failed")

\* emit_stmt, Stmt::Kind::Assign
CgAssign(c, lhs, init) == CgAssignValue(c, lhs, init, CgEmit(init, c))

\* Stmt::Kind::Expr ignores the value; a top-level expression item fails
\* only on a null value with an error message set
CgExprStmt(c, e, item) ==
  IF item /\ CgEmit(e, c) = "error"
  THEN CgFail(c, "cannot determine function signature for call")
  ELSE c

CgReturnValue(c, result, val, ret_ty) ==
  IF val \in NoValue THEN CgFail(c, "emit failed")
  ELSE IF result = "Void" \/ val = ret_ty THEN c
  ELSE IF \/ ret_ty = "double" /\ val = "i64"
          \/ ret_ty = "i64" /\ val = "double"
          \/ ret_ty = "ptr" /\ val = "ptr"
  THEN c
  ELSE CgFail(c, "emit failed")

\* emit_stmt, Stmt::Kind::Return
CgReturn(c, def, e) ==
  CgReturnValue(c, UserFns[def].result, CgEmit(e, c), ffi_type_to_llvm(UserFns[def].result))

CgIfValue(c, v) ==
  IF v \notin {"i1", "i64", "double"}
  THEN CgFail(c, "top-level if/statement emit failed")
  ELSE CgPush(c)

\* emit_stmt, Stmt::Kind::If up to the start of the then-body
CgIfEnter(c, cond) == CgIfValue(c, CgEmit(cond, c))

\* emit_stmt on one statement (an if: up to its body), and the top-level
\* item loop of codegen
CgStep(c, def, st, open) ==
  CASE st.kind = "let" ->
         IF def = "top" /\ open = 0 THEN CgLetBinding(c, st.name, st.e)
         ELSE CgLet(c, st.name, st.e)
    [] st.kind = "assign" -> CgAssign(c, st.lhs, st.e)
    [] st.kind = "expr" -> CgExprStmt(c, st.e, def = "top" /\ open = 0)
    [] st.kind = "return" ->
         IF def = "top" THEN CgFail(c, "emit failed") ELSE CgReturn(c, def, st.e)
    [] st.kind = "if" -> CgIfEnter(c, st.e)
    [] st.kind = "else" -> CgPush(CgPop(c))
    [] st.kind = "end" -> CgPop(c)

\* The emitter state at the start of a function body and of the top-level
\* items
CgStart(def) ==
  LET ps  == IF def = "top" THEN <<>> ELSE ParamNames[def]
      tys == IF def = "top" THEN <<>> ELSE UserFns[def].params
      ty(n) == tys[CHOOSE j \in 1..Len(ps) : ps[j] = n]
      isp(n) == \E j \in 1..Len(ps) : ps[j] = n
  IN  [slots |-> <<[n \in Names |-> IF isp(n) THEN ffi_type_to_llvm(ty(n)) ELSE "none"]>>,
       elems |-> <<[n \in Names |-> IF isp(n) /\ ty(n) = "Ptr" THEN "Ptr" ELSE "none"]>>,
       fnptrs |-> <<EmptySigScope>>,
       var_types |-> [n \in Names |-> IF isp(n) THEN ty(n) ELSE "none"],
       btype |-> EmptyScope,
       ok |-> TRUE, err |-> ""]

(***************************************************************************)
(* The analyzer and the emitter over the same statements.  compile() runs  *)
(* the emitter only on a program the analyzer has accepted, and each       *)
(* walks the statements in order with a state of its own, so the two are   *)
(* stepped together, statement by statement; the emitter sees the nodes    *)
(* as the analyzer has annotated them.  Every if condition here is the     *)
(* literal 1 and no if has an else: each then-body runs exactly once and   *)
(* the order of the walk is the order of execution.                        *)
(***************************************************************************)
\* The emitter state in which a statement's expressions are lowered: a
\* let inside a function or block records the variable's type, and its
\* slot when that type is known, before it lowers the initializer
CgEmitEnv(c, def, st, open) ==
  IF st.kind = "let" /\ ~(def = "top" /\ open = 0)
  THEN CgLetEnv(c, st.name, CgExprType(st.e, c, TRUE))
  ELSE c

\* The arithmetic nodes of an expression
RECURSIVE BinNodes(_)
BinNodes(e) ==
  LET sub == CASE e.k \in {"Bin", "Index"} -> BinNodes(e.l) \cup BinNodes(e.r)
               [] e.k \in {"Print", "Cast", "AllocArray", "AllocBytes"} -> BinNodes(e.l)
               [] e.k = "CallFn" -> UNION {BinNodes(e.args[i]) : i \in 1..Len(e.args)}
               [] e.k = "CallPtr" ->
                    BinNodes(e.l) \cup UNION {BinNodes(e.args[i]) : i \in 1..Len(e.args)}
               [] OTHER -> {}
  IN  IF e.k = "Bin" THEN {e} \cup sub ELSE sub

\* What the analyzer and the emitter make of the statement's indirect
\* calls through a variable and of its arithmetic nodes
\* The signature check_expr checks call(target, ...) against
SemaCallSig(found, n) == IF found # NoSig THEN found ELSE n.inf

ObserveCalls(st, s, c, g) ==
  {[origin |-> OriginOf(n.l, g),
    sema |-> SemaCallSig(lookup_fnptr_sig(s, n.l), n),
    cg |-> CgCallSig(n, c)] :
     n \in {m \in CallNodes(st.e) \cup CallNodes(st.lhs) : m.k = "CallPtr" /\ m.l.k = "Var"}}

ObserveBins(st, s, c) ==
  {[ty |-> SemaExprType(b, s), lty |-> SemaExprType(b.l, s), rty |-> SemaExprType(b.r, s),
    lval |-> CgEmit(b.l, c), rval |-> CgEmit(b.r, c), val |-> CgEmit(b, c)] :
     b \in BinNodes(st.e) \cup BinNodes(st.lhs)}

CompileWalk(st) ==
  /\ WalkEnabled
  /\ cg.ok
  /\ \E sta \in {Annotated(st, sema, sdef)} :
       \E s2 \in {SemaStep(sema, sdef, sta, Len(blocks))} :
         /\ \E c2 \in {IF s2.ok THEN CgStep(cg, sdef, sta, Len(blocks)) ELSE cg} :
              /\ sema' = s2
              /\ cg' = c2
              /\ blocks' = IF s2.ok /\ c2.ok THEN BlocksAfter(st) ELSE <<>>
              /\ ghost' = IF s2.ok /\ c2.ok THEN GhostStep(ghost, st) ELSE ghost
         /\ \E env \in {CgEmitEnv(cg, sdef, sta, Len(blocks))} :
              last' = [Observe(sta, sema, ghost) EXCEPT
                         !.sigs = IF s2.ok THEN ObserveCalls(sta, sema, env, ghost) ELSE {},
                         !.bins = IF s2.ok THEN ObserveBins(sta, sema, env) ELSE {}]
  /\ nstmts' = IF st.kind \in {"else", "end"} THEN nstmts ELSE nstmts + 1
  /\ UNCHANGED sdef
  /\ UNCHANGED notCompVars

CompileInit ==
  /\ LayoutIdle /\ RtIdle /\ ImpIdle /\ LaterIdle("none")
  /\ sdef \in {"top", "f"}
  /\ sema = SemaStart(sdef)
  /\ cg = CgStart(sdef)
  /\ blocks = <<>>
  /\ ghost = GhostStart(sdef)
  /\ nstmts = 0
  /\ last = [kind |-> "none", free |-> {}, dead |-> {}, unresolved |-> FALSE,
             indirect |-> FALSE, sigs |-> {}, bins |-> {}]

\* The statements the two are fed
CompileLets ==
  {<<"p", GetFuncPtr("f")>>, <<"p", GetFuncPtr("g")>>, <<"p", AllocBytesOf(IntLit)>>,
   <<"q", VarRef("p")>>,
   <<"x", IntLit>>, <<"x", FloatLit>>, <<"x", CastTo(IntLit, "f64")>>,
   <<"a", AllocArrayOf("f64", IntLit)>>}

CompileAssigns ==
  {<<VarRef("p"), GetFuncPtr("f")>>, <<VarRef("p"), GetFuncPtr("g")>>,
   <<VarRef("p"), VarRef("q")>>, <<VarRef("p"), AllocBytesOf(IntLit)>>,
   <<VarRef("x"), IntLit>>,
   <<IndexOf(VarRef("a"), IntLit), FloatLit>>}

CompileExprs ==
  {CallPtr(VarRef("p"), <<IntLit>>), CallPtr(VarRef("p"), <<FloatLit>>),
   CallPtr(VarRef("q"), <<IntLit>>),
   PrintOf(BinaryOp("+", IntLit, IntLit)),
   PrintOf(BinaryOp("+", FloatLit, IntLit)),
   PrintOf(BinaryOp("*", VarRef("x"), IntLit)),
   PrintOf(BinaryOp("+", CastTo(IntLit, "f64"), IntLit)),
   PrintOf(BinaryOp("+", IndexOf(VarRef("a"), IntLit), IntLit)),
   PrintOf(BinaryOp("-", CallFn("g", <<FloatLit>>), IntLit))}

CompileLet ==
  \E b \in CompileLets :
    /\ nstmts < MaxItems
    /\ CompileWalk(LetStmt(b[1], b[2]))

CompileAssign ==
  \E b \in CompileAssigns :
    /\ nstmts < MaxItems
    /\ CompileWalk(AssignStmt(b[1], b[2]))

CompileExpr ==
  \E e \in CompileExprs :
    /\ nstmts < MaxItems
    /\ CompileWalk(ExprStmt(e))

CompileReturn ==
  \E e \in {VarRef("x"), BinaryOp("+", VarRef("x"), IntLit)} :
    /\ nstmts < MaxItems
    /\ CompileWalk(ReturnStmt(e))

CompileIf ==
  /\ nstmts < MaxItems /\ Len(blocks) < MaxDepth
  /\ CompileWalk(IfStmt(IntLit))

CompileEnd ==
  /\ blocks # <<>>
  /\ CompileWalk(EndMark)

CompileNext ==
  \/ CompileLet
  \/ CompileAssign
  \/ CompileExpr
  \/ CompileReturn
  \/ CompileIf
  \/ CompileEnd

SpecCompile == CompileInit /\ [][CompileNext]_vars

\* C4: an indirect call through a variable that holds the address of the
\* user function f (given by let or assignment from get_func_ptr(f), or
\* from a variable that carries it) is checked by the analyzer and
\* lowered by the emitter with exactly the signature of f.
C4_SignatureOfOrigin ==
  (sema.ok /\ cg.ok) =>
     \A o \in last.sigs :
        o.origin \in UserFnNames => (o.sema = UserFns[o.origin] /\ o.cg = UserFns[o.origin])

\* C8: an arithmetic node has type F64 when an operand has, else I64, and
\* is lowered to a floating operation exactly when its type is F64, so
\* that no F64 operand is truncated to an integer.
C8_ArithLowered ==
  (sema.ok /\ cg.ok) =>
     \A b \in last.bins :
        /\ b.ty = (IF b.lty = "F64" \/ b.rty = "F64" THEN "F64" ELSE "I64")
        /\ b.val = (IF b.ty = "F64" THEN "double" ELSE "i64")

\* C22: a variable whose value was last given by an expression that is
\* not a named function, get_func_ptr or a variable carrying a signature
\* carries no signature, for the analyzer and for the emitter, so that an
\* indirect call through it cannot use the signature it carried before.
C22_SignatureLost ==
  (sema.ok /\ cg.ok) =>
     \A n \in GhostVisible(ghost) :
        OriginOf(VarRef(n), ghost) = "other" =>
           /\ lookup_fnptr_sig(sema, VarRef(n)) = NoSig
           /\ codegen_lookup_fnptr_sig(cg, VarRef(n)) = NoSig

(***************************************************************************)
(* The import resolver (multifile.cpp).  A program is                      *)
(*   struct_defs : sequence of [name, fields, exported],                   *)
(*   user_fns    : sequence of [name, sig, exported, calls], calls being   *)
(*                 the user functions the body refers to,                  *)
(*   libs        : sequence of [path, name],                               *)
(*   extern_fns  : sequence of [name, sig, lib_name].                      *)
(* Every parameter and result type is a keyword type, so the type-name     *)
(* fields of the declarations are all empty and a signature is its         *)
(* parameter and result types.  The files exist and parse and no import    *)
(* is circular: load_and_build_postorder has produced the post-order,      *)
(* which the merge loop then walks.                                        *)
(***************************************************************************)
SigII == [params |-> <<"I64">>, result |-> "I64"]
SigFF == [params |-> <<"F64">>, result |-> "F64"]

Fields2 == <<<<"x", "F64">>, <<"y", "F64">>>>
Fields1 == <<<<"x", "F64">>>>

StructDefOf(name, fields, exported) ==
  [name |-> name, fields |-> fields, exported |-> exported]

\* A reference in a function body: a call of f, or get_func_ptr(f)
CallTo(f) == [via |-> "call", name |-> f]

FnPtrOf(f) == [via |-> "fnptr", name |-> f]

\* calls: the references of the body
FnDefOf(name, sig, exported, calls) ==
  [name |-> name, sig |-> sig, exported |-> exported, calls |-> calls]

ExternLibOf(path, name) == [path |-> path, name |-> name]

ExternFnOf(name, sig, lib_name) == [name |-> name, sig |-> sig, lib_name |-> lib_name]

FnDeclOf(name, sig) == [name |-> name, sig |-> sig]

LibPaths == {"m.so", "x.so"}

\* The parsed library files
Libraries ==
  [l \in {"geo", "alt"} |->
     IF l = "geo"
     THEN [struct_defs |-> <<StructDefOf("S", Fields2, TRUE), StructDefOf("T", Fields1, FALSE)>>,
           user_fns |-> <<FnDefOf("a", SigII, TRUE, {CallTo("h"), CallTo("print")}),
                          FnDefOf("h", SigII, FALSE, {FnPtrOf("g")}),
                          FnDefOf("b", SigFF, TRUE, {}),
                          FnDefOf("g", SigII, FALSE, {CallTo("h")})>>,
           libs |-> <<ExternLibOf("m.so", "__lib0")>>,
           extern_fns |-> <<ExternFnOf("cos", SigFF, "__lib0")>>]
     ELSE [struct_defs |-> <<StructDefOf("S", Fields1, TRUE)>>,
           user_fns |-> <<FnDefOf("a", SigFF, TRUE, {}), FnDefOf("b", SigFF, TRUE, {})>>,
           libs |-> <<ExternLibOf("x.so", "__lib0")>>,
           extern_fns |-> <<ExternFnOf("cos", SigFF, "__lib0")>>]]

\* "__lib" + std::to_string(n)
LibName(n) ==
  CASE n = 0 -> "__lib0" [] n = 1 -> "__lib1" [] n = 2 -> "__lib2"
    [] n = 3 -> "__lib3" [] OTHER -> "__libN"

\* The index of the first element passing the test, 0 when none does
FirstIndex(seq, Test(_)) ==
  IF \E i \in 1..Len(seq) : Test(seq[i])
  THEN CHOOSE i \in 1..Len(seq) : Test(seq[i]) /\ \A j \in 1..(i - 1) : ~Test(seq[j])
  ELSE 0

fn_def_signature_equal(a, b) == a.sig = b.sig

fndecl_matches_fndef(decl, def) == decl.name = def.name /\ decl.sig = def.sig

get_lib_path_by_name(prog, lib_name) ==
  IF FirstIndex(prog.libs, LAMBDA l : l.name = lib_name) = 0 THEN ""
  ELSE prog.libs[FirstIndex(prog.libs, LAMBDA l : l.name = lib_name)].path

extern_fn_signature_equal(a, b) == a.name = b.name /\ a.sig = b.sig

lib_has_path(prog, path) == \E i \in 1..Len(prog.libs) : prog.libs[i].path = path

\* A bug: records are compared by name only.
struct_defs_equal_by_name(a, b) == a.name = b.name

struct_defs_equal(a, b) == a.name = b.name /\ a.fields = b.fields

find_extern_fn(prog, name) == FirstIndex(prog.extern_fns, LAMBDA e : e.name = name)

(***************************************************************************)
(* merge_library_into_main.  The merge state r is                          *)
(*   main     : main_prog as modified so far,                              *)
(*   err      : the error returned, NoImportErr while there is none; its   *)
(*              fields are the kind of the message and the symbol and the  *)
(*              request->name (lib) that the message quotes,               *)
(*   lib      : request->name,                                             *)
(*   imported : imported_fns, by name,                                     *)
(*   names    : path_to_main_lib_name ("" where a path has no entry).      *)
(***************************************************************************)
ImportFail(r, msg, sym) ==
  [r EXCEPT !.err = [msg |-> msg, sym |-> sym, lib |-> r.lib]]

\* A bug: a requested record is appended without looking for an existing one.
PlaceStructAppending(r, lib_def, ei) ==
  [r EXCEPT !.main.struct_defs = Append(@, lib_def)]

\* The requested record lib_def of the library; ei is the index of the first
\* record of main_prog with its name, 0 when there is none
PlaceStruct(r, lib_def, ei) ==
  IF ei = 0 THEN [r EXCEPT !.main.struct_defs = Append(@, lib_def)]
  ELSE IF struct_defs_equal(r.main.struct_defs[ei], lib_def) THEN r
  ELSE ImportFail(r, "duplicate symbol", lib_def.name)

\* A bug: a requested record is looked up whether exported or not.
FindStructByName(lib, sname) ==
  FirstIndex(lib.struct_defs, LAMBDA s : s.name = sname)

FindExportedStruct(lib, sname) ==
  FirstIndex(lib.struct_defs, LAMBDA s : s.exported /\ s.name = sname)

MergeStruct(r, lib, sname) ==
  IF FindExportedStruct(lib, sname) = 0
  THEN ImportFail(r, "missing exported struct", sname)
  ELSE PlaceStruct(r, lib.struct_defs[FindExportedStruct(lib, sname)],
                   FirstIndex(r.main.struct_defs, LAMBDA s : s.name = sname))

RECURSIVE MergeStructs(_, _, _, _)
MergeStructs(r, lib, struct_names, i) ==
  IF r.err # NoImportErr \/ i > Len(struct_names) THEN r
  ELSE MergeStructs(MergeStruct(r, lib, struct_names[i]), lib, struct_names, i + 1)

PlaceFn(r, fdecl, fdef, ei) ==
  IF ei = 0
  THEN [r EXCEPT !.main.user_fns = Append(@, fdef), !.imported = Append(@, fdef.name)]
  ELSE IF fndecl_matches_fndef(fdecl, r.main.user_fns[ei]) THEN r
  ELSE ImportFail(r, "duplicate symbol", fdecl.name)

FindExportedFn(lib, fdecl) ==
  FirstIndex(lib.user_fns, LAMBDA f : f.exported /\ fndecl_matches_fndef(fdecl, f))

MergeFn(r, lib, fdecl) ==
  IF FindExportedFn(lib, fdecl) = 0
  THEN ImportFail(r, "missing or signature mismatch for exported fn", fdecl.name)
  ELSE PlaceFn(r, fdecl, lib.user_fns[FindExportedFn(lib, fdecl)],
               FirstIndex(r.main.user_fns, LAMBDA f : f.name = fdecl.name))

RECURSIVE MergeFns(_, _, _, _)
MergeFns(r, lib, fn_decls, i) ==
  IF r.err # NoImportErr \/ i > Len(fn_decls) THEN r
  ELSE MergeFns(MergeFn(r, lib, fn_decls[i]), lib, fn_decls, i + 1)

MergeExternLib(r, l) ==
  IF ~lib_has_path(r.main, l.path)
  THEN [r EXCEPT !.main.libs = Append(@, ExternLibOf(l.path, LibName(Len(r.main.libs)))),
                 !.names[l.path] = LibName(Len(r.main.libs))]
  ELSE [r EXCEPT !.names[l.path] =
          r.main.libs[FirstIndex(r.main.libs, LAMBDA m : m.path = l.path)].name]

RECURSIVE MergeExternLibs(_, _, _)
MergeExternLibs(r, lib, i) ==
  IF r.err # NoImportErr \/ i > Len(lib.libs) THEN r
  ELSE MergeExternLibs(MergeExternLib(r, lib.libs[i]), lib, i + 1)

\* The library's extern function ext declared for the path ext_path; ei is
\* the index of main_prog's extern function of that name, 0 when none
PlaceExternFn(r, ext, ext_path, ei) ==
  IF ei # 0
  THEN IF \/ get_lib_path_by_name(r.main, r.main.extern_fns[ei].lib_name) # ext_path
          \/ ~extern_fn_signature_equal(r.main.extern_fns[ei], ext)
       THEN ImportFail(r, "extern fn conflicts", ext.name)
       ELSE r
  ELSE [r EXCEPT !.main.extern_fns =
          Append(@, IF ext_path \in LibPaths /\ r.names[ext_path] # ""
                    THEN [ext EXCEPT !.lib_name = r.names[ext_path]]
                    ELSE ext)]

RECURSIVE MergeExternFns(_, _, _)
MergeExternFns(r, lib, i) ==
  IF r.err # NoImportErr \/ i > Len(lib.extern_fns) THEN r
  ELSE MergeExternFns(PlaceExternFn(r, lib.extern_fns[i],
                                    get_lib_path_by_name(lib, lib.extern_fns[i].lib_name),
                                    find_extern_fn(r.main, lib.extern_fns[i].name)),
                      lib, i + 1)

\* A bug: get_func_ptr references are not collected.
collect_direct_calls_only(fn, user_fn_names) ==
  {c.name : c \in {d \in fn.calls : d.via = "call"}} \cap user_fn_names

\* The user functions of the library that the body of fn calls or passes
\* to get_func_ptr
collect_called_user_fns_in_body(fn, user_fn_names) ==
  {c.name : c \in fn.calls} \cap user_fn_names

\* collect_called_user_fns_in_body of the library function named f
CalleesOf(lib, f) ==
  UNION {collect_called_user_fns_in_body(lib.user_fns[i],
                                         {lib.user_fns[k].name : k \in 1..Len(lib.user_fns)}) :
           i \in {j \in 1..Len(lib.user_fns) : lib.user_fns[j].name = f}}

\* The functions the worklist visits, starting from the imported ones
RECURSIVE VisitedFrom(_, _)
VisitedFrom(lib, fns) ==
  IF UNION {CalleesOf(lib, f) : f \in fns} \subseteq fns THEN fns
  ELSE VisitedFrom(lib, fns \cup UNION {CalleesOf(lib, f) : f \in fns})

SeqRange(seq) == {seq[i] : i \in 1..Len(seq)}

needed_helpers(lib, imported) ==
  UNION {CalleesOf(lib, f) : f \in VisitedFrom(lib, SeqRange(imported))} \ SeqRange(imported)

PlaceHelper(r, helper_def, ei) ==
  IF ei = 0 THEN [r EXCEPT !.main.user_fns = Append(@, helper_def)]
  ELSE IF fn_def_signature_equal(r.main.user_fns[ei], helper_def) THEN r
  ELSE ImportFail(r, "duplicate symbol", helper_def.name)

MergeHelper(r, lib, helper_name) ==
  PlaceHelper(r, lib.user_fns[FirstIndex(lib.user_fns, LAMBDA f : f.name = helper_name)],
              FirstIndex(r.main.user_fns, LAMBDA f : f.name = helper_name))

\* The orders in which an unordered set may hand out the helper names
HelperOrders == {<<"h", "g">>, <<"g", "h">>}

\* The helpers are visited in the order ord of the unordered set
RECURSIVE MergeHelpers(_, _, _, _)
MergeHelpers(r, lib, todo, ord) ==
  IF r.err # NoImportErr \/ todo = {} THEN r
  ELSE MergeHelpers(MergeHelper(r, lib, ord[FirstIndex(ord, LAMBDA n : n \in todo)]), lib,
                    todo \ {ord[FirstIndex(ord, LAMBDA n : n \in todo)]}, ord)

MergeNeededHelpers(r, lib, ord) ==
  IF r.err # NoImportErr THEN r
  ELSE MergeHelpers(r, lib, needed_helpers(lib, r.imported), ord)

merge_library_into_main(main_prog, lib_prog, request, ord) ==
  MergeNeededHelpers(
    MergeExternFns(
      MergeExternLibs(
        MergeFns(
          MergeStructs([main |-> main_prog, err |-> NoImportErr, imported |-> <<>>,
                        names |-> [p \in LibPaths |-> ""], lib |-> request.name],
                       lib_prog, request.struct_names, 1),
          lib_prog, request.fn_decls, 1),
        lib_prog, 1),
      lib_prog, 1),
    lib_prog, ord)

(***************************************************************************)
(* resolve_imports_and_merge: the loop over the post-order.                *)
(***************************************************************************)
\* The import requests a file may make of the libraries
ImportRequests ==
  {[name |-> l, struct_names |-> ss, fn_decls |-> fs] :
     l \in {"geo", "alt"},
     ss \in {<<>>, <<"S">>, <<"T", "S">>},
     fs \in {<<>>, <<FnDeclOf("a", SigII)>>, <<FnDeclOf("b", SigFF)>>,
             <<FnDeclOf("h", SigII)>>}}

\* parse_extern_lib: the block 'extern lib "path" [as name]' is appended to the
\* libraries parsed so far; as_name is "" when the block gives no name
parse_extern_lib(libs, path, as_name) ==
  Append(libs, ExternLibOf(path, IF as_name = "" THEN LibName(Len(libs)) ELSE as_name))

\* The main program as parsed
MainPrograms ==
  {[struct_defs |-> sd, user_fns |-> uf, libs |-> el[1], extern_fns |-> el[2]] :
     sd \in {<<>>, <<StructDefOf("S", Fields2, FALSE)>>, <<StructDefOf("S", Fields1, FALSE)>>},
     uf \in {<<>>, <<FnDefOf("a", SigFF, FALSE, {})>>, <<FnDefOf("h", SigFF, FALSE, {})>>},
     el \in {<<<<>>, <<>>>>,
             <<<<ExternLibOf("m.so", "__lib0")>>, <<ExternFnOf("cos", SigFF, "__lib0")>>>>,
             <<parse_extern_lib(<<>>, "m.so", "__lib1"), <<>>>>}}

ImportInit ==
  /\ LayoutIdle /\ RtIdle /\ CompIdle /\ LaterIdle("none")
  /\ imain \in MainPrograms
  /\ imain0 = imain
  /\ idone = <<>>
  /\ ierr = NoImportErr
  /\ ipc = "merging"
  /\ ilast = [kind |-> "none"]

\* One turn of the loop: merge the next (library, request) of the post-order
ImportMerge ==
  /\ ipc = "merging"
  /\ Len(idone) < MaxImports
  /\ \E req \in ImportRequests :
       \E r \in {merge_library_into_main(imain, Libraries[req.name], req, ord) :
                   ord \in HelperOrders} :
         /\ imain' = r.main
         /\ ierr' = r.err
         /\ ipc' = IF r.err = NoImportErr THEN "merging" ELSE "failed"
         /\ idone' = IF r.err = NoImportErr THEN Append(idone, req) ELSE idone
         /\ ilast' = [kind |-> "merge", req |-> req, before |-> imain,
                      repeat |-> \E i \in 1..Len(idone) : idone[i] = req]
  /\ UNCHANGED imain0
  /\ UNCHANGED notImpVars

\* The post-order is exhausted: return ""
ImportReturn ==
  /\ ipc = "merging"
  /\ ipc' = "ok"
  /\ UNCHANGED <<imain, imain0, idone, ierr, ilast>>
  /\ UNCHANGED notImpVars

ImportNext ==
  \/ ImportMerge
  \/ ImportReturn

SpecImport == ImportInit /\ [][ImportNext]_vars

\* The number of definitions of main_prog with the given name
StructCopies(name) ==
  Cardinality({i \in 1..Len(imain.struct_defs) : imain.struct_defs[i].name = name})

FnCopies(name) ==
  Cardinality({i \in 1..Len(imain.user_fns) : imain.user_fns[i].name = name})

\* C9: merging a library with a request that was merged before raises no
\* error, leaves the main program as it was, and the main program holds
\* exactly one record and one function of each requested name.
C9_ImportDedup ==
  (ilast.kind = "merge" /\ ilast.repeat) =>
     /\ ierr = NoImportErr
     /\ imain = ilast.before
     /\ \A n \in SeqRange(ilast.req.struct_names) : StructCopies(n) = 1
     /\ \A d \in SeqRange(ilast.req.fn_decls) : FnCopies(d.name) = 1

C9_Witness ==
  /\ ilast.kind = "merge" /\ ilast.repeat
  /\ ilast.req.struct_names # <<>> /\ ilast.req.fn_decls # <<>>
  /\ ilast.before.struct_defs = <<StructDefOf("S", Fields2, TRUE)>>
  /\ ierr = NoImportErr

\* The request merged last asks for a record or a function that the
\* library exports and that main_prog held before with another shape
ImportConflict ==
  /\ ilast.kind = "merge"
  /\ \/ \E n \in SeqRange(ilast.req.struct_names) :
          /\ FindExportedStruct(Libraries[ilast.req.name], n) # 0
          /\ \E k \in 1..Len(ilast.before.struct_defs) :
               /\ ilast.before.struct_defs[k].name = n
               /\ ilast.before.struct_defs[k].fields #
                     Libraries[ilast.req.name].struct_defs[
                        FindExportedStruct(Libraries[ilast.req.name], n)].fields
     \/ \E d \in SeqRange(ilast.req.fn_decls) :
          /\ FindExportedFn(Libraries[ilast.req.name], d) # 0
          /\ \E k \in 1..Len(ilast.before.user_fns) :
               /\ ilast.before.user_fns[k].name = d.name
               /\ ilast.before.user_fns[k].sig # d.sig

\* Every symbol the request merged last asks for is exported by the library
AllExported ==
  /\ \A n \in SeqRange(ilast.req.struct_names) :
        FindExportedStruct(Libraries[ilast.req.name], n) # 0
  /\ \A d \in SeqRange(ilast.req.fn_decls) :
        FindExportedFn(Libraries[ilast.req.name], d) # 0

\* C10 as stated: a request for a name that main_prog holds with another
\* shape fails with "duplicate symbol".
C10_AsStated == ImportConflict => ierr.msg = "duplicate symbol"

\* C10: a request for a name that main_prog holds with another shape
\* fails, and with "duplicate symbol" when the library exports every
\* symbol the request asks for.
C10_DuplicateRejected ==
  ImportConflict =>
     /\ ipc = "failed"
     /\ ierr # NoImportErr
     /\ AllExported => ierr.msg = "duplicate symbol"

C10_Witness ==
  /\ ImportConflict
  /\ AllExported
  /\ ipc = "failed"
  /\ ierr = [msg |-> "duplicate symbol", sym |-> "S", lib |-> ilast.req.name]

\* The symbols the request merged last asks for that the library does not
\* export: no definition of the name, none marked export, or, for a
\* function, none with the declared signature
UnexportedStructs ==
  {n \in SeqRange(ilast.req.struct_names) :
     ~\E s \in SeqRange(Libraries[ilast.req.name].struct_defs) :
         s.name = n /\ s.exported}

UnexportedFns ==
  {d.name : d \in {e \in SeqRange(ilast.req.fn_decls) :
                     ~\E f \in SeqRange(Libraries[ilast.req.name].user_fns) :
                         f.name = e.name /\ f.exported /\ f.sig = e.sig}}

StructCopiesIn(prog, name) ==
  Cardinality({i \in 1..Len(prog.struct_defs) : prog.struct_defs[i].name = name})

FnCopiesIn(prog, name) ==
  Cardinality({i \in 1..Len(prog.user_fns) : prog.user_fns[i].name = name})

\* The merge added no definition named like a symbol that is not exported
NothingUnexportedMerged ==
  /\ \A n \in UnexportedStructs : StructCopies(n) = StructCopiesIn(ilast.before, n)
  /\ \A n \in UnexportedFns : FnCopies(n) = FnCopiesIn(ilast.before, n)

\* The error names a requested symbol that is not exported
MissingExportErr ==
  \/ ierr.msg = "missing exported struct" /\ ierr.sym \in UnexportedStructs
  \/ /\ ierr.msg = "missing or signature mismatch for exported fn"
     /\ ierr.sym \in UnexportedFns

\* C12 as stated: a request for a symbol the library does not export fails
\* with an error naming the symbol and the library, and nothing of that
\* name is merged.
C12_AsStated ==
  (ilast.kind = "merge" /\ UnexportedStructs \cup UnexportedFns # {}) =>
     /\ ipc = "failed"
     /\ ierr.lib = ilast.req.name
     /\ MissingExportErr
     /\ NothingUnexportedMerged

\* C12: a request for a symbol the library does not export fails with an
\* error naming the library, and nothing of that name is merged; the error
\* names a symbol that is not exported, unless a symbol requested before it
\* is already defined in the main program with another shape.
C12_MissingRejected ==
  (ilast.kind = "merge" /\ UnexportedStructs \cup UnexportedFns # {}) =>
     /\ ipc = "failed"
     /\ ierr.lib = ilast.req.name
     /\ MissingExportErr \/ (ierr.msg = "duplicate symbol" /\ ImportConflict)
     /\ NothingUnexportedMerged

C12_Witness ==
  /\ ilast.kind = "merge"
  /\ ilast.req.struct_names = <<"S">>
  /\ StructCopiesIn(ilast.before, "S") = 0
  /\ StructCopies("S") = 1
  /\ UnexportedFns = {"a"}
  /\ ierr = [msg |-> "missing or signature mismatch for exported fn",
             sym |-> "a", lib |-> "alt"]

\* C14: after a successful resolution the names of the external libraries
\* of the main program are pairwise distinct.
C14_LibNamesDistinct ==
  ipc = "ok" =>
     \A i, j \in 1..Len(imain.libs) :
        imain.libs[i].name = imain.libs[j].name => i = j

\* The user functions of the library reached from the body of the function
\* named f through calls and get_func_ptr references
RECURSIVE ReachedFrom(_, _)
ReachedFrom(lib, fns) ==
  IF \A i \in 1..Len(lib.user_fns) :
        lib.user_fns[i].name \in fns =>
           \A c \in lib.user_fns[i].calls :
              (\E k \in 1..Len(lib.user_fns) : lib.user_fns[k].name = c.name) => c.name \in fns
  THEN fns
  ELSE ReachedFrom(lib, fns \cup
         ({c.name : c \in UNION {lib.user_fns[i].calls :
                                  i \in {j \in 1..Len(lib.user_fns) :
                                           lib.user_fns[j].name \in fns}}}
            \cap {lib.user_fns[k].name : k \in 1..Len(lib.user_fns)}))

\* C15: after a successful merge the main program holds, exactly once,
\* every user function of the library that an imported function reaches
\* through calls and get_func_ptr references, the private ones included.
C15_HelpersMerged ==
  (ilast.kind = "merge" /\ ierr = NoImportErr) =>
     \A d \in SeqRange(ilast.req.fn_decls) :
        \A f \in ReachedFrom(Libraries[ilast.req.name], {d.name}) : FnCopies(f) = 1

C15_Witness ==
  /\ ilast.kind = "merge"
  /\ ierr = NoImportErr
  /\ ilast.req.name = "geo"
  /\ ilast.req.fn_decls = <<FnDeclOf("a", SigII)>>
  /\ ilast.before.user_fns = <<>>
  /\ FnCopies("h") = 1
  /\ FnCopies("g") = 1
  /\ imain.user_fns[2].name = "g"

\* C30: when resolve_imports_and_merge has returned an error, the record
\* definitions, user functions, external libraries and external functions
\* of the main program are those it had when the function was called.
C30_FailedMergeLeavesMain == ipc = "failed" => imain = imain0

(***************************************************************************)
(* load_and_build_postorder (multifile.cpp).  The directory holds the      *)
(* library files a, b and c and the symbolic link l to a; every file       *)
(* parses.  A file is known by its canonical path; files[c] is the         *)
(* sequence of import names of the file with canonical path c, and         *)
(* files["main"] that of the main program.  The recursion is kept as a     *)
(* stack of frames [canon, req, k]: the file being loaded, the request     *)
(* that asked for it and the index of its next import; the bottom frame    *)
(* is the loop of resolve_imports_and_merge over the main program.         *)
(***************************************************************************)
ImportNames == {"a", "a.fusion", "l", "b", "c", "gone"}

\* resolve_import: dir + "/" + name, with ".fusion" appended unless the
\* name ends in it; every file here lies in the directory "."
resolve_import(name) ==
  IF name \in {"a.fusion"} THEN "./" \o name ELSE "./" \o name \o ".fusion"

FileExists(path) == path \in {"./a.fusion", "./b.fusion", "./c.fusion", "./l.fusion"}

\* canonical_path: realpath of an existing file, else the path itself
canonical_path(path) ==
  CASE path \in {"./a.fusion", "./l.fusion"} -> "/p/a.fusion"
    [] path = "./b.fusion" -> "/p/b.fusion"
    [] path = "./c.fusion" -> "/p/c.fusion"
    [] OTHER -> path

LibFiles == {"/p/a.fusion", "/p/b.fusion", "/p/c.fusion"}

CanonOf(name) == canonical_path(resolve_import(name))

\* A bug: the loading stack is never consulted.
OnLoadingStackNever(st, canon) == FALSE

\* loading.count(canon)
OnLoadingStack(st, canon) == canon \in st.loading

\* The next import of the innermost frame is taken up
Advance(st) == [st EXCEPT !.frames[Len(st.frames)].k = @ + 1]

\* A bug: a file is recorded in the post-order when it is entered.
EnterFileRecording(st, canon, req) ==
  [st EXCEPT !.cache = @ \cup {canon}, !.loading = @ \cup {canon},
             !.postorder = Append(@, [prog |-> canon, req |-> req]),
             !.frames = Append(@, [canon |-> canon, req |-> req, k |-> 1])]

\* The file is parsed, cached and put on the loading stack
EnterFile(st, canon, req) ==
  [st EXCEPT !.cache = @ \cup {canon}, !.loading = @ \cup {canon},
             !.frames = Append(@, [canon |-> canon, req |-> req, k |-> 1])]

\* A bug: the cache is never consulted, every request parses the file
LoadEntryUncached(st, file_path, canon, req) ==
  IF OnLoadingStack(st, canon)
  THEN [st EXCEPT !.err = [msg |-> "circular import involving", sym |-> canon]]
  ELSE IF ~FileExists(file_path)
  THEN [st EXCEPT !.err = [msg |-> "cannot open", sym |-> file_path]]
  ELSE EnterFile(st, canon, req)

\* The entry of load_and_build_postorder(file_path, request, ...) up to its
\* loop over the imports of the file
LoadEntry(st, file_path, canon, req) ==
  IF OnLoadingStack(st, canon)
  THEN [st EXCEPT !.err = [msg |-> "circular import involving", sym |-> canon]]
  ELSE IF canon \in st.cache
  THEN [st EXCEPT !.postorder = Append(@, [prog |-> canon, req |-> req])]
  ELSE IF ~FileExists(file_path)
  THEN [st EXCEPT !.err = [msg |-> "cannot open", sym |-> file_path]]
  ELSE EnterFile(st, canon, req)

\* The end of load_and_build_postorder for the innermost frame
LoadExit(st) ==
  [st EXCEPT !.loading = @ \ {st.frames[Len(st.frames)].canon},
             !.postorder = Append(@, [prog |-> st.frames[Len(st.frames)].canon,
                                      req |-> st.frames[Len(st.frames)].req]),
             !.frames = PopN(@, 1)]

LoadState ==
  [frames |-> frames, loading |-> loading, cache |-> cache,
   postorder |-> postorder, err |-> NoImportErr]

TopFrame == frames[Len(frames)]

\* The imports each library file may hold, and those of the main program
LibImportLists ==
  {<<>>, <<"b">>, <<"c">>, <<"a">>, <<"l">>, <<"a.fusion">>, <<"b", "c">>, <<"gone">>}

MainImportLists ==
  {<<"a">>, <<"a", "b">>, <<"b", "a">>, <<"l", "c">>, <<"c", "a.fusion">>}

LoadInit ==
  /\ LayoutIdle /\ RtIdle /\ CompIdle /\ ImpIdle /\ LaterIdle("load")
  /\ files \in [LibFiles \cup {"main"} -> LibImportLists \cup MainImportLists]
  /\ files["main"] \in MainImportLists
  /\ \A c \in LibFiles : files[c] \in LibImportLists
  /\ frames = <<[canon |-> "main", req |-> <<"main", 0>>, k |-> 1]>>
  /\ loading = {}
  /\ cache = {}
  /\ postorder = <<>>
  /\ nmerged = 0
  /\ lderr = NoImportErr
  /\ ldpc = "loading"
  /\ ldlast = [op |-> "none"]
  /\ parsed = <<>>

\* load_and_build_postorder is called for the next import of the file of
\* the innermost frame
LoadCall ==
  /\ ldpc = "loading"
  /\ TopFrame.k <= Len(files[TopFrame.canon])
  /\ \E name \in {files[TopFrame.canon][TopFrame.k]} :
       \E st \in {LoadEntry(Advance(LoadState), resolve_import(name), CanonOf(name),
                            <<TopFrame.canon, TopFrame.k>>)} :
         /\ frames' = IF st.err = NoImportErr THEN st.frames ELSE <<>>
         /\ loading' = st.loading
         /\ cache' = st.cache
         /\ postorder' = st.postorder
         /\ lderr' = st.err
         /\ ldpc' = IF st.err = NoImportErr THEN "loading" ELSE "failed"
         /\ ldlast' = [op |-> "call", canon |-> CanonOf(name),
                       on_stack |-> CanonOf(name) \in loading,
                       stack |-> {frames[i].canon : i \in 1..Len(frames)}]
         /\ parsed' = IF Len(st.frames) > Len(frames)
                       THEN Append(parsed, CanonOf(name)) ELSE parsed
  /\ UNCHANGED <<files, nmerged>>
  /\ UNCHANGED notLoadVars

\* The imports of the file of the innermost frame are done: it returns ""
LoadReturn ==
  /\ ldpc = "loading"
  /\ Len(frames) > 1
  /\ TopFrame.k > Len(files[TopFrame.canon])
  /\ \E st \in {LoadExit(LoadState)} :
       /\ frames' = st.frames
       /\ loading' = st.loading
       /\ postorder' = st.postorder
  /\ ldlast' = [op |-> "return", canon |-> TopFrame.canon]
  /\ UNCHANGED <<files, cache, nmerged, lderr, ldpc, parsed>>
  /\ UNCHANGED notLoadVars

\* The imports of the main program are loaded: the merge loop starts
LoadDone ==
  /\ ldpc = "loading"
  /\ Len(frames) = 1
  /\ TopFrame.k > Len(files["main"])
  /\ frames' = <<>>
  /\ ldpc' = "merging"
  /\ ldlast' = [op |-> "loaded"]
  /\ UNCHANGED <<files, loading, cache, postorder, nmerged, lderr, parsed>>
  /\ UNCHANGED notLoadVars

\* One turn of the merge loop; merge_library_into_main returns "" or an error
MergeNext ==
  /\ ldpc = "merging"
  /\ nmerged < Len(postorder)
  /\ \E merged \in BOOLEAN :
       /\ nmerged' = IF merged THEN nmerged + 1 ELSE nmerged
       /\ ldpc' = IF merged THEN "merging" ELSE "failed"
       /\ lderr' = IF merged THEN lderr
                   ELSE [msg |-> "merge", sym |-> postorder[nmerged + 1].prog]
  /\ ldlast' = [op |-> "merge"]
  /\ UNCHANGED <<files, frames, loading, cache, postorder, parsed>>
  /\ UNCHANGED notLoadVars

\* The post-order is exhausted: resolve_imports_and_merge returns ""
MergeDone ==
  /\ ldpc = "merging"
  /\ nmerged = Len(postorder)
  /\ ldpc' = "ok"
  /\ ldlast' = [op |-> "done"]
  /\ UNCHANGED <<files, frames, loading, cache, postorder, nmerged, lderr, parsed>>
  /\ UNCHANGED notLoadVars

LoadNext ==
  \/ LoadCall
  \/ LoadReturn
  \/ LoadDone
  \/ MergeNext
  \/ MergeDone

SpecLoad == LoadInit /\ [][LoadNext]_vars

\* The library files a file imports
ImportsOf(c) == {CanonOf(files[c][i]) : i \in 1..Len(files[c])} \cap LibFiles

\* C11: no file is on the loading stack twice, the loading set is the
\* stack, and a call for a file that is on the loading stack fails with
\* "circular import involving" and the canonical path of that file.
C11_NoReentry ==
  /\ \A i, j \in 1..Len(frames) : frames[i].canon = frames[j].canon => i = j
  /\ ldpc = "loading" => loading = {frames[i].canon : i \in 2..Len(frames)}
  /\ (ldlast.op = "call" /\ ldlast.canon \in ldlast.stack) =>
        /\ ldpc = "failed"
        /\ lderr = [msg |-> "circular import involving", sym |-> ldlast.canon]

C11_Witness ==
  /\ ldlast.op = "call"
  /\ ldlast.canon \in ldlast.stack
  /\ Cardinality(ldlast.stack) = 3
  /\ lderr = [msg |-> "circular import involving", sym |-> "/p/a.fusion"]

\* C13: when a library is merged, every library it imports has been
\* merged before it.
C13_PostOrderMerge ==
  \A i \in 1..nmerged :
     \A d \in ImportsOf(postorder[i].prog) :
        \E j \in 1..(i - 1) : postorder[j].prog = d

C13_Witness ==
  /\ ldpc = "ok"
  /\ nmerged = 4
  /\ postorder[4].prog = "/p/a.fusion"
  /\ ImportsOf("/p/a.fusion") = {"/p/b.fusion", "/p/c.fusion"}

\* resolve_imports_and_merge runs from its call to its return: each of its
\* steps is taken when it can be
SpecLoadFair == SpecLoad /\ WF_vars(LoadNext)

\* The library files asked for by the main program or by a library asked for
RECURSIVE RequestedFrom(_, _)
RequestedFrom(S, n) ==
  IF n = 0 THEN S
  ELSE RequestedFrom(S \cup UNION {ImportsOf(c) : c \in S}, n - 1)

Requested == RequestedFrom(ImportsOf("main"), Cardinality(LibFiles))

ParsedOnce == \A i, j \in 1..Len(parsed) : parsed[i] = parsed[j] => i = j

LoadEnded == ldpc \in {"ok", "failed"}

EndedMergedOrError ==
  /\ ldpc = "ok" =>
       /\ lderr = NoImportErr
       /\ nmerged = Len(postorder)
       /\ {postorder[i].prog : i \in 1..nmerged} = Requested
  /\ ldpc = "failed" => lderr # NoImportErr

\* C27: import resolution terminates, no file is parsed twice, and the
\* run ends with every requested library merged or with an error.
C27_Terminates == []ParsedOnce /\ <>LoadEnded /\ []EndedMergedOrError

\* A run that ended with a library merged for two requests, parsed once
C27_Witness ==
  /\ ldpc = "ok"
  /\ \E i, j \in 1..nmerged : i # j /\ postorder[i].prog = postorder[j].prog
  /\ Len(parsed) = Cardinality(Requested)
  /\ Len(parsed) = 3

(***************************************************************************)
(* The for-in statement in the analyzer.  The analyzer of sema.cpp here    *)
(* handles the C-style loop; the parser builds 'for x in E { ... }' and    *)
(* range(...) nodes, whose analysis follows the language description: the  *)
(* arguments of range are I64 and its optional element type is one of      *)
(* i32, i64, f32, f64 (I64 when absent); the iterable of a for-in must be  *)
(* array-valued, and the loop variable is bound to the element type in a   *)
(* fresh scope.  Array-valued is decided as the analyzer decides it for    *)
(* indexing: get_array_element_type, extended by range.  The walk is the   *)
(* analyzer's walk; last.arrs and last.bound keep, beside the analyzer,    *)
(* the variables bound to an alloc_array result and all bound variables.   *)
(***************************************************************************)
RangeOf(args, ty) == [k |-> "Range", args |-> args, name |-> ty]

RangeElemType(ty) == IF ty = "" THEN "I64" ELSE ElemTypeOfName(ty)

\* range(n [, ty]) or range(start, end [, ty])
CheckRange(e, aerr, atys) ==
  IF Len(e.args) \notin {1, 2} THEN "range expects 1 or 2 arguments"
  ELSE IF FirstErr(aerr) # "" THEN FirstErr(aerr)
  ELSE IF \E j \in 1..Len(atys) : atys[j] # "I64" THEN "range arguments must be i64"
  ELSE IF e.name \notin {"", "i32", "i64", "f32", "f64"} THEN "range: unknown element type"
  ELSE ""

ForInIterableErr(e, s) ==
  IF e.k = "Range"
  THEN CheckRange(e, [j \in 1..Len(e.args) |-> SemaCheckExpr(e.args[j], s)],
                  [j \in 1..Len(e.args) |-> SemaExprType(e.args[j], s)])
  ELSE SemaCheckExpr(e, s)

ForInElemType(e, s) ==
  IF e.k = "Range" THEN RangeElemType(e.name) ELSE get_array_element_type(e, s)

\* The loop variable in the scope the loop has just pushed
ForInBind(s1, loop_var, elem) ==
  [s1 EXCEPT !.vars[Len(s1.vars)][loop_var] = elem]

\* Stmt::Kind::For of a for-in up to the start of the body; err and elem are
\* the verdict on the iterable and its element type
SemaForInChecked(s, loop_var, err, elem, open) ==
  IF err # "" THEN SemaFail(s, err, open)
  ELSE IF elem = "Void" THEN SemaFail(s, "for-in requires an array", open)
  ELSE ForInBind(SemaPush(s), loop_var, elem)

SemaForIn(s, loop_var, iterable, open) ==
  SemaForInChecked(s, loop_var, ForInIterableErr(iterable, s),
                   ForInElemType(iterable, s), open)

ForInLetInits ==
  {IntLit, AllocArrayOf("i64", IntLit), AllocArrayOf("f64", IntLit), VarRef("a"), VarRef("x")}

ForInIterables ==
  {RangeOf(<<IntLit>>, ""), RangeOf(<<IntLit>>, "f64"), RangeOf(<<IntLit, IntLit>>, "i32"),
   VarRef("a"), VarRef("x"), VarRef("y"), IntLit}

ForInInit ==
  /\ LayoutIdle /\ RtIdle /\ ImpIdle /\ LaterIdle("none")
  /\ sdef \in {"top", "f"}
  /\ sema = SemaStart(sdef)
  /\ cg = CgIdle
  /\ blocks = <<>>
  /\ ghost = GhostStart(sdef)
  /\ nstmts = 0
  /\ last = [kind |-> "none", arrs |-> {},
             bound |-> IF sdef = "top" THEN {} ELSE SeqRange(ParamNames[sdef])]

\* The variables bound to an alloc_array result once 'let name = init' is done
ArraysAfterLet(arrs, name, init) ==
  IF init.k = "AllocArray" \/ (init.k = "Var" /\ init.name \in arrs)
  THEN arrs \cup {name} ELSE arrs \ {name}

\* A let before any loop
ForInLet ==
  /\ sema.ok /\ blocks = <<>> /\ nstmts < MaxStmts
  /\ \E name \in {"x", "a"}, init \in ForInLetInits :
       \E s2 \in {SemaStep(sema, sdef, LetStmt(name, init), 0)} :
         /\ sema' = s2
         /\ last' = IF s2.ok
                    THEN [kind |-> "let", arrs |-> ArraysAfterLet(last.arrs, name, init),
                          bound |-> last.bound \cup {name}]
                    ELSE [last EXCEPT !.kind = "let"]
  /\ nstmts' = nstmts + 1
  /\ UNCHANGED <<sdef, cg, blocks, ghost>>
  /\ UNCHANGED notCompVars

\* 'for q in iterable {'
ForInEnter ==
  /\ sema.ok /\ Len(blocks) < MaxDepth /\ nstmts < MaxStmts
  /\ \E iterable \in ForInIterables :
       \E s2 \in {SemaForIn(sema, "q", iterable, Len(blocks))} :
         /\ sema' = s2
         /\ blocks' = IF s2.ok THEN Append(blocks, "for") ELSE <<>>
         /\ last' = [kind |-> "forin", arrs |-> last.arrs, bound |-> last.bound,
                     iterable |-> iterable,
                     depth |-> Len(blocks)]
  /\ nstmts' = nstmts + 1
  /\ UNCHANGED <<sdef, cg, ghost>>
  /\ UNCHANGED notCompVars

\* A statement of a loop body
ForInBody ==
  /\ sema.ok /\ blocks # <<>> /\ nstmts < MaxStmts
  /\ \E e \in {PrintOf(VarRef("q")), PrintOf(VarRef("a"))} :
       sema' = SemaStep(sema, sdef, ExprStmt(e), Len(blocks))
  /\ last' = [kind |-> "expr", arrs |-> last.arrs, bound |-> last.bound]
  /\ nstmts' = nstmts + 1
  /\ blocks' = IF sema'.ok THEN blocks ELSE <<>>
  /\ UNCHANGED <<sdef, cg, ghost>>
  /\ UNCHANGED notCompVars

\* '}' of a loop
ForInEnd ==
  /\ sema.ok /\ blocks # <<>>
  /\ sema' = SemaStep(sema, sdef, EndMark, Len(blocks))
  /\ blocks' = PopN(blocks, 1)
  /\ last' = [kind |-> "end", arrs |-> last.arrs, bound |-> last.bound]
  /\ UNCHANGED <<sdef, cg, ghost, nstmts>>
  /\ UNCHANGED notCompVars

ForInNext ==
  \/ ForInLet
  \/ ForInEnter
  \/ ForInBody
  \/ ForInEnd

SpecForIn == ForInInit /\ [][ForInNext]_vars

\* The iterable of the for-in just checked is array-valued: a range call,
\* or a variable bound to an alloc_array result
IterableIsArray ==
  \/ last.iterable.k = "Range"
  \/ last.iterable.k = "Var" /\ last.iterable.name \in last.arrs

\* It is a well-typed expression that is not array-valued
IterableIsNoArray ==
  /\ ~IterableIsArray
  /\ last.iterable.k = "Var" => last.iterable.name \in last.bound \cup (IF last.depth > 0 THEN {"q"} ELSE {})

ArityArgs ==
  {<<>>, <<IntLit>>, <<IntLit, IntLit>>, <<IntLit, IntLit, IntLit>>,
   <<FloatLit>>, <<FloatLit, IntLit>>}

ArityCalls == {CallFn(callee, args) : callee \in {"f", "g", "cos", "print"}, args \in ArityArgs}

\* The call c as a whole expression and as a part of another
ArityPlaces ==
  {"self", "bin", "print", "stream", "arg", "callptr", "cast", "index", "bytes"}

PlaceCall(place, c) ==
  CASE place = "self" -> c
    [] place = "bin" -> BinaryOp("+", IntLit, c)
    [] place = "print" -> CallFn("print", <<c>>)
    [] place = "stream" -> CallFn("print", <<IntLit, c>>)
    [] place = "arg" -> CallFn("f", <<c>>)
    [] place = "callptr" -> CallPtr(VarRef("p"), <<c>>)
    [] place = "cast" -> CastTo(c, "f64")
    [] place = "index" -> IndexOf(VarRef("a"), c)
    [] place = "bytes" -> AllocBytesOf(c)

ArityInit ==
  /\ LayoutIdle /\ RtIdle /\ ImpIdle /\ LaterIdle("none")
  /\ sdef \in {"top", "f"}
  /\ sema = SemaStart(sdef)
  /\ cg = CgIdle
  /\ blocks = <<>>
  /\ ghost = GhostStart(sdef)
  /\ nstmts = 0
  /\ last = [kind |-> "none"]

ArityLet ==
  /\ sema.ok /\ nstmts < MaxStmts
  /\ \E b \in {<<"p", GetFuncPtr("f")>>, <<"a", AllocArrayOf("i64", IntLit)>>} :
       sema' = SemaStep(sema, sdef, LetStmt(b[1], b[2]), 0)
  /\ last' = [kind |-> "let"]
  /\ nstmts' = nstmts + 1
  /\ UNCHANGED <<sdef, cg, blocks, ghost>>
  /\ UNCHANGED notCompVars

\* An expression statement holding the call c at the given place
ArityCheck ==
  /\ sema.ok /\ nstmts < MaxStmts
  /\ \E c \in ArityCalls, place \in ArityPlaces :
       \E sta \in {Annotated(ExprStmt(PlaceCall(place, c)), sema, sdef)} :
         /\ sema' = SemaStep(sema, sdef, sta, 0)
         /\ last' = [kind |-> "call", e |-> sta.e, place |-> place]
  /\ nstmts' = nstmts + 1
  /\ UNCHANGED <<sdef, cg, blocks, ghost>>
  /\ UNCHANGED notCompVars

ArityNext ==
  \/ ArityLet
  \/ ArityCheck

SpecArity == ArityInit /\ [][ArityNext]_vars

\* The number of arguments the callee of a call node takes
ArityOk(c) ==
  CASE c.name = "print" -> Len(c.args) \in {1, 2}
    [] c.name \in ExternFnNames -> Len(c.args) = Len(ExternFns[c.name].params)
    [] c.name \in UserFnNames -> Len(c.args) = Len(UserFns[c.name].params)
    [] OTHER -> TRUE

WrongArityCalls(e) == {c \in CallNodes(e) : c.k = "CallFn" /\ ~ArityOk(c)}

\* C17: a statement with a call of print that has neither one nor two
\* arguments, or a call of a user or extern function whose number of
\* arguments is not that of its declaration, is rejected, and with the
\* arity error of that call when the call is the whole expression.
C17_ArityChecked ==
  (last.kind = "call" /\ WrongArityCalls(last.e) # {}) =>
     /\ ~sema.ok
     /\ last.place = "self" =>
          sema.err = IF last.e.name = "print" THEN "print expects 1 or 2 arguments"
                     ELSE "call has wrong number of arguments"

C17_Witness ==
  /\ last.kind = "call"
  /\ last.e = CallFn("print", <<IntLit, IntLit, IntLit>>)
  /\ ~sema.ok
  /\ sema.err = "print expects 1 or 2 arguments"

\* A call inside another expression whose own arguments are in order
C17_WitnessNested ==
  /\ last.kind = "call"
  /\ last.place = "stream"
  /\ WrongArityCalls(last.e) = {CallFn("f", <<>>)}
  /\ ~sema.ok

(***************************************************************************)
(* The entry function fusion_main (codegen.cpp, after the user functions   *)
(* are emitted) and its execution.  The emitter appends to the function:   *)
(* for every external library a call of rt_dlopen whose result is stored   *)
(* and tested, with a block that calls rt_dlerror_last and rt_panic for a  *)
(* null result; then the code of the top-level items in their order; then  *)
(* the return.  An instruction stands for the code of one loop turn of the *)
(* emitter.  The code of an item may itself call rt_panic.                 *)
(***************************************************************************)
MaxLibs == 2
MaxTop == 2

\* A bug: the handle is stored and not tested.
EmitDlopenUnchecked(ir, idx, path) ==
  Append(ir, [op |-> "dlopen", idx |-> idx, path |-> path, checked |-> FALSE])

\* rt_dlopen, store, test, and the block dlopen.fail
EmitDlopen(ir, idx, path) ==
  Append(ir, [op |-> "dlopen", idx |-> idx, path |-> path, checked |-> TRUE])

\* The code of the top-level item of the given index
EmitTopLevel(ir, idx, item) ==
  Append(ir, [op |-> "item", idx |-> idx, path |-> item, checked |-> FALSE])

\* rt_dlopen of the runtime: the buffer is cleared, and on failure holds
\* the loader's message, after the path when both fit the buffer
rt_dlopen_buf(path, outcome) ==
  CASE outcome = "opened" -> ""
    [] outcome = "failed" -> path \o ": cannot open shared object file"
    [] outcome = "failed_long" -> "loader message filling the buffer"

\* rt_dlerror_last: the buffer, or NULL when it is empty
rt_dlerror_last(buf) == IF buf = "" THEN "NULL" ELSE buf

EntryInit ==
  /\ LayoutIdle /\ RtIdle /\ CompIdle /\ ImpIdle /\ LaterIdle("entry")
  /\ eprog \in [libs : SeqsUpTo(LibPaths, MaxLibs),
                items : SeqsUpTo({"let", "stmt", "expr"}, MaxTop)]
  /\ eir = <<>>
  /\ epc = "emit_libs"
  /\ eip = 1
  /\ etrace = <<>>
  /\ ebuf = ""
  /\ epanic = "none"

\* One turn of the loop over program->libs
EmitLib ==
  /\ epc = "emit_libs"
  /\ Len(eir) < Len(eprog.libs)
  /\ eir' = EmitDlopen(eir, Len(eir) + 1, eprog.libs[Len(eir) + 1])
  /\ UNCHANGED <<eprog, epc, eip, etrace, ebuf, epanic>>
  /\ UNCHANGED notEntryVars

\* The loop over the libraries is done
EmitLibsDone ==
  /\ epc = "emit_libs"
  /\ Len(eir) = Len(eprog.libs)
  /\ epc' = "emit_items"
  /\ UNCHANGED <<eprog, eir, eip, etrace, ebuf, epanic>>
  /\ UNCHANGED notEntryVars

\* One turn of the loop over program->top_level; the emission of an item
\* may fail, and codegen then returns no module
EmitItem ==
  /\ epc = "emit_items"
  /\ Len(eir) < Len(eprog.libs) + Len(eprog.items)
  /\ \E emitted \in BOOLEAN :
       /\ eir' = IF emitted
                 THEN EmitTopLevel(eir, Len(eir) - Len(eprog.libs) + 1,
                                   eprog.items[Len(eir) - Len(eprog.libs) + 1])
                 ELSE eir
       /\ epc' = IF emitted THEN epc ELSE "emit_failed"
  /\ UNCHANGED <<eprog, eip, etrace, ebuf, epanic>>
  /\ UNCHANGED notEntryVars

\* CreateRetVoid; the module is handed to the JIT and fusion_main is called
EmitRet ==
  /\ epc = "emit_items"
  /\ Len(eir) = Len(eprog.libs) + Len(eprog.items)
  /\ eir' = Append(eir, [op |-> "ret", idx |-> 0, path |-> "", checked |-> FALSE])
  /\ epc' = "running"
  /\ UNCHANGED <<eprog, eip, etrace, ebuf, epanic>>
  /\ UNCHANGED notEntryVars

\* fusion_main executes the code that opens a library
RunDlopen ==
  /\ epc = "running"
  /\ eir[eip].op = "dlopen"
  /\ \E outcome \in {"opened", "failed", "failed_long"} :
       /\ ebuf' = rt_dlopen_buf(eir[eip].path, outcome)
       /\ etrace' = Append(etrace, [op |-> "open", idx |-> eir[eip].idx,
                                    path |-> eir[eip].path, null |-> outcome # "opened"])
       /\ IF outcome # "opened" /\ eir[eip].checked
          THEN /\ epanic' = rt_dlerror_last(ebuf')
               /\ epc' = "panicked"
               /\ eip' = eip
          ELSE /\ epanic' = epanic
               /\ epc' = epc
               /\ eip' = eip + 1
  /\ UNCHANGED <<eprog, eir>>
  /\ UNCHANGED notEntryVars

\* fusion_main executes the code of a top-level item
RunItem ==
  /\ epc = "running"
  /\ eir[eip].op = "item"
  /\ \E panics \in BOOLEAN :
       /\ etrace' = Append(etrace, [op |-> "item", idx |-> eir[eip].idx,
                                    path |-> eir[eip].path, null |-> FALSE])
       /\ epanic' = IF panics THEN "panic of the item" ELSE epanic
       /\ epc' = IF panics THEN "panicked" ELSE epc
       /\ eip' = IF panics THEN eip ELSE eip + 1
  /\ UNCHANGED <<eprog, eir, ebuf>>
  /\ UNCHANGED notEntryVars

\* fusion_main returns
RunRet ==
  /\ epc = "running"
  /\ eir[eip].op = "ret"
  /\ epc' = "returned"
  /\ UNCHANGED <<eprog, eir, eip, etrace, ebuf, epanic>>
  /\ UNCHANGED notEntryVars

EntryNext ==
  \/ EmitLib
  \/ EmitLibsDone
  \/ EmitItem
  \/ EmitRet
  \/ RunDlopen
  \/ RunItem
  \/ RunRet

SpecEntry == EntryInit /\ [][EntryNext]_vars

\* The executed events of one kind, in the order of their execution
Executed(kind) == SelectSeq(etrace, LAMBDA ev : ev.op = kind)

\* C18: fusion_main opens the external libraries in their order and panics
\* with the loader's last error at the first that does not open; it runs a
\* top-level item only after every library is open, runs the items in
\* source order, and has run each exactly once when it returns.
C18_LibsThenItems ==
  /\ \A i \in 1..Len(Executed("open")) :
        /\ etrace[i] = Executed("open")[i]
        /\ etrace[i].idx = i /\ etrace[i].path = eprog.libs[i]
        /\ etrace[i].null =>
             /\ i = Len(etrace)
             /\ epc = "panicked"
             /\ epanic = ebuf /\ ebuf # ""
  /\ \A i \in 1..Len(Executed("item")) :
        /\ Executed("item")[i].idx = i
        /\ Executed("item")[i].path = eprog.items[i]
        /\ Len(Executed("open")) = Len(eprog.libs)
  /\ epc = "returned" => Len(Executed("item")) = Len(eprog.items)

C18_Witness ==
  /\ epc = "returned"
  /\ Len(eprog.libs) = 2
  /\ eprog.items = <<"let", "expr">>
  /\ Len(etrace) = 4

(***************************************************************************)
(* The driver (main.cpp, run_file).  The file is read; lex, parse,         *)
(* resolve_imports_and_merge, check, codegen and run_jit are called in     *)
(* turn, and after each call but that of lex the result is tested: an      *)
(* error is written to standard error and run_file returns 1.  A build     *)
(* without LLVM returns 1 after the analysis.  The stages are taken by     *)
(* their results: a stage returns no error ("") or one of its errors, and  *)
(* the code run_jit calls may end the process in rt_panic.                 *)
(***************************************************************************)
StageOrder == <<"lex", "parse", "imports", "sema", "codegen", "jit">>

DriverPaths == {"main.fusion", "geo.fusion", "missing.fusion"}

\* The results a stage can return: "" for success, or the diagnostic
StageResults(stage) ==
  CASE stage = "lex" -> {""}
    [] stage = "parse" -> {"", "parse error at 1:1 expected expression",
                           "parse error at 2:5 expected ';'"}
    [] stage = "imports" -> {"", "circular import", "cannot resolve import"}
    [] stage = "sema" -> {"", "undefined variable", "wrong number of arguments"}
    [] stage = "codegen" -> {"", "codegen failed", "codegen failed: unknown function"}
    [] stage = "jit" -> {"", "module verification failed",
                         "failed to lookup fusion_main"}

\* A bug: the result of the analysis is not tested.
run_file_after_untested_check(stage, ok, llvm) ==
  CASE stage = "open" -> IF ok THEN "lex" ELSE "exit1"
    [] stage = "lex" -> "parse"
    [] stage = "parse" -> IF ok THEN "imports" ELSE "exit1"
    [] stage = "imports" -> IF ok THEN "sema" ELSE "exit1"
    [] stage = "sema" -> IF llvm THEN "codegen" ELSE "exit1"
    [] stage = "codegen" -> IF ok THEN "jit" ELSE "exit1"
    [] stage = "jit" -> IF ok THEN "exit0" ELSE "exit1"

\* Where run_file goes after a call, by the test that follows the call
run_file_after(stage, ok, llvm) ==
  CASE stage = "open" -> IF ok THEN "lex" ELSE "exit1"
    [] stage = "lex" -> "parse"
    [] stage = "parse" -> IF ok THEN "imports" ELSE "exit1"
    [] stage = "imports" -> IF ok THEN "sema" ELSE "exit1"
    [] stage = "sema" -> IF ok THEN (IF llvm THEN "codegen" ELSE "exit1") ELSE "exit1"
    [] stage = "codegen" -> IF ok THEN "jit" ELSE "exit1"
    [] stage = "jit" -> IF ok THEN "exit0" ELSE "exit1"

DriverInit ==
  /\ LayoutIdle /\ RtIdle /\ CompIdle /\ ImpIdle /\ LaterIdle("driver")
  /\ dargs \in [path : DriverPaths, debug : BOOLEAN, llvm : BOOLEAN]
  /\ dpc = "open"
  /\ dran = <<>>
  /\ dfail = "none"
  /\ derr = ""
  /\ dexit = NoExit

\* std::ifstream f(path), the reading of the source and the debug line
DriverOpen ==
  /\ dpc = "open"
  /\ dpc' = run_file_after("open", dargs.path # "missing.fusion", dargs.llvm)
  /\ derr' = IF dargs.path = "missing.fusion"
             THEN "fusion: cannot open '" \o dargs.path \o "'"
             ELSE IF dargs.debug THEN "fusion: running " \o dargs.path ELSE derr
  /\ UNCHANGED <<dargs, dran, dfail, dexit>>
  /\ UNCHANGED notDriverVars

\* lex(source); its result is not tested
DriverLex ==
  /\ dpc = "lex"
  /\ \E res \in StageResults("lex") :
       /\ dran' = Append(dran, "lex")
       /\ dfail' = IF res = "" THEN dfail ELSE "lex"
       /\ derr' = IF res = "" THEN derr ELSE "fusion: " \o res
       /\ dpc' = run_file_after("lex", res = "", dargs.llvm)
  /\ UNCHANGED <<dargs, dexit>>
  /\ UNCHANGED notDriverVars

\* parse(tokens) and the test of parse_result.ok()
DriverParse ==
  /\ dpc = "parse"
  /\ \E res \in StageResults("parse") :
       /\ dran' = Append(dran, "parse")
       /\ dfail' = IF res = "" THEN dfail ELSE "parse"
       /\ derr' = IF res = "" THEN derr ELSE "fusion: " \o res
       /\ dpc' = run_file_after("parse", res = "", dargs.llvm)
  /\ UNCHANGED <<dargs, dexit>>
  /\ UNCHANGED notDriverVars

\* resolve_imports_and_merge and the test of merge_err
DriverImports ==
  /\ dpc = "imports"
  /\ \E res \in StageResults("imports") :
       /\ dran' = Append(dran, "imports")
       /\ dfail' = IF res = "" THEN dfail ELSE "imports"
       /\ derr' = IF res = "" THEN derr ELSE "fusion: " \o res
       /\ dpc' = run_file_after("imports", res = "", dargs.llvm)
  /\ UNCHANGED <<dargs, dexit>>
  /\ UNCHANGED notDriverVars

\* check; a build without LLVM writes its message after a successful check
DriverSema ==
  /\ dpc = "sema"
  /\ \E res \in StageResults("sema") :
       /\ dran' = Append(dran, "sema")
       /\ dfail' = IF res = "" THEN dfail ELSE "sema"
       /\ dpc' = run_file_after("sema", res = "", dargs.llvm)
       /\ derr' = IF dpc' = "exit1"
                  THEN IF res = "" THEN "fusion: LLVM not available, cannot run"
                       ELSE "fusion: " \o res
                  ELSE derr
  /\ UNCHANGED <<dargs, dexit>>
  /\ UNCHANGED notDriverVars

\* codegen and the test of the module
DriverCodegen ==
  /\ dpc = "codegen"
  /\ \E res \in StageResults("codegen") :
       /\ dran' = Append(dran, "codegen")
       /\ dfail' = IF res = "" THEN dfail ELSE "codegen"
       /\ derr' = IF res = "" THEN derr ELSE "fusion: " \o res
       /\ dpc' = run_file_after("codegen", res = "", dargs.llvm)
  /\ UNCHANGED <<dargs, dexit>>
  /\ UNCHANGED notDriverVars

\* run_jit returns, and the test of jit_result.ok
DriverJit ==
  /\ dpc = "jit"
  /\ \E res \in StageResults("jit") :
       /\ dran' = Append(dran, "jit")
       /\ dfail' = IF res = "" THEN dfail ELSE "jit"
       /\ derr' = IF res = "" THEN derr ELSE "fusion: " \o res
       /\ dpc' = run_file_after("jit", res = "", dargs.llvm)
  /\ UNCHANGED <<dargs, dexit>>
  /\ UNCHANGED notDriverVars

\* The code run_jit calls ends the process in rt_panic (abort)
DriverJitAbort ==
  /\ dpc = "jit"
  /\ dran' = Append(dran, "jit")
  /\ derr' = "fusion panic"
  /\ dpc' = "aborted"
  /\ dexit' = AbortStatus
  /\ UNCHANGED <<dargs, dfail>>
  /\ UNCHANGED notDriverVars

\* return 0 or return 1
DriverReturn ==
  /\ dpc \in {"exit0", "exit1"}
  /\ dexit' = IF dpc = "exit0" THEN 0 ELSE 1
  /\ dpc' = "exited"
  /\ UNCHANGED <<dargs, dran, dfail, derr>>
  /\ UNCHANGED notDriverVars

DriverNext ==
  \/ DriverOpen
  \/ DriverLex
  \/ DriverParse
  \/ DriverImports
  \/ DriverSema
  \/ DriverCodegen
  \/ DriverJit
  \/ DriverJitAbort
  \/ DriverReturn

SpecDriver == DriverInit /\ [][DriverNext]_vars

\* C19: the stages run in the order lex, parse, import resolution,
\* analysis, emission, JIT; a stage that reports an error is the last one
\* run and run_file returns 1; run_file returns 0 only when all six stages
\* ran and none reported an error.
C19_FirstErrorStops ==
  /\ dran = SubSeq(StageOrder, 1, Len(dran))
  /\ dfail # "none" =>
       /\ dran[Len(dran)] = dfail
       /\ dpc \in {"exit1", "exited"}
       /\ dpc = "exited" => dexit = 1
  /\ dexit = 0 => dran = StageOrder /\ dfail = "none"

C19_Witness ==
  /\ dpc = "exited"
  /\ dfail = "sema"
  /\ dran = <<"lex", "parse", "imports", "sema">>
  /\ dexit = 1

C19_WitnessSuccess ==
  /\ dexit = 0
  /\ dran = StageOrder

(***************************************************************************)
(* The lexer (lexer.cpp) over a source text given as a sequence of         *)
(* characters, and the expression levels of the parser (parser.cpp).       *)
(* Tokens carry their kind, identifier and integer value; line and column  *)
(* are left out.  String and float literals and comments are not among the *)
(* source texts.  lex skips a character it has no branch for.              *)
(***************************************************************************)
MaxOps == 3

Token(kind, ident, int_value) == [kind |-> kind, ident |-> ident, int_value |-> int_value]

Whitespace == {" "}
Digits == {"0", "1", "2", "3", "4", "6"}
Letters == {"a", "b", "c", "d", "e", "f", "g", "h", "i", "j", "k", "l", "m",
            "n", "o", "p", "q", "r", "s", "t", "u", "v", "w", "x", "y", "z", "_"}

DigitValue(c) ==
  CASE c = "0" -> 0 [] c = "1" -> 1 [] c = "2" -> 2
    [] c = "3" -> 3 [] c = "4" -> 4 [] c = "6" -> 6

keyword_from_ident(ident) ==
  CASE ident = "extern" -> "KwExtern"
    [] ident = "lib" -> "KwLib"
    [] ident = "fn" -> "KwFn"
    [] ident = "f64" -> "KwF64"
    [] ident = "f32" -> "KwF32"
    [] ident = "i64" -> "KwI64"
    [] ident = "i32" -> "KwI32"
    [] ident = "u64" -> "KwU64"
    [] ident = "u32" -> "KwU32"
    [] ident = "void" -> "KwVoid"
    [] ident = "ptr" -> "KwPtr"
    [] ident = "cstring" -> "KwCstring"
    [] ident = "as" -> "KwAs"
    [] ident = "let" -> "KwLet"
    [] ident = "return" -> "KwReturn"
    [] ident = "opaque" -> "KwOpaque"
    [] ident = "struct" -> "KwStruct"
    [] ident = "if" -> "KwIf"
    [] ident = "else" -> "KwElse"
    [] ident = "elif" -> "KwElif"
    [] OTHER -> "Ident"

\* The end of the run of characters of S that starts at i
RunEnd(source, i, S) ==
  CHOOSE j \in i..(Len(source) + 1) :
    /\ \A k \in i..(j - 1) : source[k] \in S
    /\ j = Len(source) + 1 \/ source[j] \notin S

RECURSIVE IdentText(_, _, _)
IdentText(source, i, j) ==
  IF i >= j THEN "" ELSE source[i] \o IdentText(source, i + 1, j)

RECURSIVE IntValue(_, _, _, _)
IntValue(source, i, j, int_val) ==
  IF i >= j THEN int_val
  ELSE IntValue(source, i + 1, j, int_val * 10 + DigitValue(source[i]))

\* The branches of the loop of lex for one and two characters, in their order
PunctKind(source, i) ==
  LET c == source[i]
      next == IF i + 1 <= Len(source) THEN source[i + 1] ELSE ""
  IN  IF c = "-" /\ next = ">" THEN <<"Arrow", 2>>
      ELSE IF c = "(" THEN <<"LParen", 1>>
      ELSE IF c = ")" THEN <<"RParen", 1>>
      ELSE IF c = "{" THEN <<"LCurly", 1>>
      ELSE IF c = "}" THEN <<"RCurly", 1>>
      ELSE IF c = "+" THEN <<"Plus", 1>>
      ELSE IF c = "," THEN <<"Comma", 1>>
      ELSE IF c = ";" THEN <<"Semicolon", 1>>
      ELSE IF c = ":" THEN <<"Colon", 1>>
      ELSE IF c = "=" /\ next = "=" THEN <<"EqEq", 2>>
      ELSE IF c = "=" THEN <<"Equals", 1>>
      ELSE IF c = "!" /\ next = "=" THEN <<"Ne", 2>>
      ELSE IF c = "<" /\ next = "=" THEN <<"Le", 2>>
      ELSE IF c = "<" THEN <<"Lt", 1>>
      ELSE IF c = ">" /\ next = "=" THEN <<"Ge", 2>>
      ELSE IF c = ">" THEN <<"Gt", 1>>
      ELSE <<"none", 1>>

RECURSIVE LexFrom(_, _, _)
LexFrom(source, i, tokens) ==
  IF i > Len(source) THEN Append(tokens, Token("Eof", "", 0))
  ELSE IF source[i] \in Whitespace THEN LexFrom(source, i + 1, tokens)
  ELSE IF source[i] \in Digits
       THEN LexFrom(source, RunEnd(source, i, Digits),
                    Append(tokens, Token("IntLiteral", "",
                             IntValue(source, i, RunEnd(source, i, Digits), 0))))
  ELSE IF source[i] \in Letters
       THEN LexFrom(source, RunEnd(source, i, Letters \cup Digits),
                    Append(tokens,
                      Token(keyword_from_ident(
                              IdentText(source, i, RunEnd(source, i, Letters \cup Digits))),
                            IdentText(source, i, RunEnd(source, i, Letters \cup Digits)), 0)))
  ELSE IF PunctKind(source, i)[1] # "none"
       THEN LexFrom(source, i + PunctKind(source, i)[2],
                    Append(tokens, Token(PunctKind(source, i)[1], "", 0)))
  ELSE LexFrom(source, i + 1, tokens)

lex(source) == LexFrom(source, 1, <<>>)

(***************************************************************************)
(* parse_primary, parse_multiplicative, parse_additive and parse_expr.     *)
(* Each returns the expression, null on failure, and the index of the next *)
(* token.  Subscripts, casts to a type and the built-in calls are not      *)
(* among the source texts.                                                 *)
(***************************************************************************)
NullExpr == [k |-> "null"]
Parsed(e, i) == [e |-> e, i |-> i]
IntLiteralExpr(v) == [k |-> "Int", value |-> v]
CompareExpr(op, l, r) == [k |-> "Cmp", name |-> op, l |-> l, r |-> r]

at_eof(tokens, i) == i > Len(tokens) \/ tokens[i].kind = "Eof"

is_comparison(kind) == kind \in {"EqEq", "Ne", "Lt", "Gt", "Le", "Ge"}

token_to_compare_op(kind) ==
  CASE kind = "EqEq" -> "==" [] kind = "Ne" -> "!=" [] kind = "Lt" -> "<"
    [] kind = "Gt" -> ">" [] kind = "Le" -> "<=" [] kind = "Ge" -> ">="

RECURSIVE parse_primary(_, _)
RECURSIVE parse_args(_, _, _)
RECURSIVE MultiplicativeLoop(_, _, _)
RECURSIVE parse_multiplicative(_, _)
RECURSIVE AdditiveLoop(_, _, _)
RECURSIVE parse_additive(_, _)
RECURSIVE CompareLoop(_, _, _)
RECURSIVE parse_expr(_, _)

\* if (!left) return nullptr; otherwise go on with the expression read
OrNull(r, i, rest) == IF r.e = NullExpr THEN Parsed(NullExpr, i) ELSE rest

\* The arguments of a call after the first: (',' expr)* ')'
ArgsAfter(tokens, i, args, arg) ==
  OrNull(arg, i, parse_args(tokens, arg.i, Append(args, arg.e)))

parse_args(tokens, i, args) ==
  IF ~at_eof(tokens, i) /\ tokens[i].kind = "Comma"
  THEN ArgsAfter(tokens, i, args, parse_expr(tokens, i + 1))
  ELSE IF at_eof(tokens, i) \/ tokens[i].kind # "RParen"
       THEN Parsed(NullExpr, i)
       ELSE Parsed([k |-> "args", list |-> args], i + 1)

CallOf(name, i, args) ==
  OrNull(args, i, Parsed(CallFn(name, args.e.list), args.i))

CallAfterFirst(tokens, i, arg) ==
  OrNull(arg, i, CallOf(tokens[i].ident, i, parse_args(tokens, arg.i, <<arg.e>>)))

Parenthesized(tokens, i, inner) ==
  IF inner.e = NullExpr \/ at_eof(tokens, inner.i) \/ tokens[inner.i].kind # "RParen"
  THEN Parsed(NullExpr, i)
  ELSE Parsed(inner.e, inner.i + 1)

parse_primary(tokens, i) ==
  IF at_eof(tokens, i) THEN Parsed(NullExpr, i)
  ELSE IF tokens[i].kind = "IntLiteral"
       THEN Parsed(IntLiteralExpr(tokens[i].int_value), i + 1)
  ELSE IF tokens[i].kind = "Ident"
       THEN IF at_eof(tokens, i + 1) \/ tokens[i + 1].kind # "LParen"
            THEN Parsed(VarRef(tokens[i].ident), i + 1)
            ELSE IF ~at_eof(tokens, i + 2) /\ tokens[i + 2].kind # "RParen"
                 THEN CallAfterFirst(tokens, i, parse_expr(tokens, i + 2))
                 ELSE IF at_eof(tokens, i + 2)
                      THEN Parsed(NullExpr, i)
                      ELSE Parsed(CallFn(tokens[i].ident, <<>>), i + 3)
  ELSE IF tokens[i].kind = "LParen"
       THEN Parenthesized(tokens, i, parse_expr(tokens, i + 1))
  ELSE Parsed(NullExpr, i)

MulOp(kind) == IF kind = "Star" THEN "*" ELSE "/"
AddOp(kind) == IF kind = "Plus" THEN "+" ELSE "-"

MultiplicativeFold(tokens, left, i, right) ==
  OrNull(right, i,
         MultiplicativeLoop(tokens, BinaryOp(MulOp(tokens[i].kind), left, right.e), right.i))

\* The loop of parse_multiplicative: (Star | Slash) primary, folded to the left
MultiplicativeLoop(tokens, left, i) ==
  IF ~at_eof(tokens, i) /\ tokens[i].kind \in {"Star", "Slash"}
  THEN MultiplicativeFold(tokens, left, i, parse_primary(tokens, i + 1))
  ELSE Parsed(left, i)

MultiplicativeFrom(tokens, i, left) ==
  OrNull(left, i, MultiplicativeLoop(tokens, left.e, left.i))

parse_multiplicative(tokens, i) ==
  MultiplicativeFrom(tokens, i, parse_primary(tokens, i))

AdditiveFold(tokens, left, i, right) ==
  OrNull(right, i,
         AdditiveLoop(tokens, BinaryOp(AddOp(tokens[i].kind), left, right.e), right.i))

\* The loop of parse_additive: (Plus | Minus) multiplicative, folded to the left
AdditiveLoop(tokens, left, i) ==
  IF ~at_eof(tokens, i) /\ tokens[i].kind \in {"Plus", "Minus"}
  THEN AdditiveFold(tokens, left, i, parse_multiplicative(tokens, i + 1))
  ELSE Parsed(left, i)

AdditiveFrom(tokens, i, left) ==
  OrNull(left, i, AdditiveLoop(tokens, left.e, left.i))

parse_additive(tokens, i) ==
  AdditiveFrom(tokens, i, parse_multiplicative(tokens, i))

CompareFold(tokens, left, i, right) ==
  OrNull(right, i,
         CompareLoop(tokens, CompareExpr(token_to_compare_op(tokens[i].kind), left, right.e),
                     right.i))

\* The loop of parse_expr: comparison additive, folded to the left
CompareLoop(tokens, left, i) ==
  IF ~at_eof(tokens, i) /\ is_comparison(tokens[i].kind)
  THEN CompareFold(tokens, left, i, parse_additive(tokens, i + 1))
  ELSE Parsed(left, i)

CompareFrom(tokens, i, left) ==
  OrNull(left, i, CompareLoop(tokens, left.e, left.i))

parse_expr(tokens, i) ==
  CompareFrom(tokens, i, parse_additive(tokens, i))

(***************************************************************************)
(* The source texts: operands a, b, c, ... joined by operators, written    *)
(* without spaces, with spaces, with the first two operands or all but the *)
(* first in parentheses, or with the last operand missing.                 *)
(***************************************************************************)
OperandNames == <<"a", "b", "c", "d", "e", "f">>
SourceOps == {"+", "-", "*", "/", "<", "==", "<="}
SourceForms == {"tight", "spaced", "left_paren", "right_paren", "dangling"}

OpChars(op) ==
  CASE op = "==" -> <<"=", "=">>
    [] op = "<=" -> <<"<", "=">>
    [] OTHER -> <<op>>

\* op_j operand_(j+1) op_(j+1) ... with sp around the operators
RECURSIVE SourceTail(_, _, _)
SourceTail(ops, j, sp) ==
  IF j > Len(ops) THEN <<>>
  ELSE sp \o OpChars(ops[j]) \o sp \o <<OperandNames[j + 1]>> \o SourceTail(ops, j + 1, sp)

SourceText(ops, form) ==
  CASE form = "tight" -> <<"a">> \o SourceTail(ops, 1, <<>>)
    [] form = "spaced" -> <<"a">> \o SourceTail(ops, 1, <<" ">>)
    [] form = "left_paren" ->
         IF ops = <<>> THEN <<"(", "a", ")">>
         ELSE <<"(", "a">> \o OpChars(ops[1]) \o <<"b", ")">> \o SourceTail(ops, 2, <<" ">>)
    [] form = "right_paren" ->
         IF ops = <<>> THEN <<"(", "a", ")">>
         ELSE <<"a">> \o OpChars(ops[1]) \o <<"(", "b">> \o SourceTail(ops, 2, <<>>) \o <<")">>
    [] form = "dangling" ->
         IF ops = <<>> THEN <<>>
         ELSE SubSeq(<<"a">> \o SourceTail(ops, 1, <<" ">>), 1,
                     Len(<<"a">> \o SourceTail(ops, 1, <<" ">>)) - 2)

ParserInit ==
  /\ LayoutIdle /\ RtIdle /\ CompIdle /\ ImpIdle /\ LaterIdle("parser")
  /\ pin \in [ops : SeqsUpTo(SourceOps, MaxOps), form : SourceForms]
  /\ psrc = SourceText(pin.ops, pin.form)
  /\ ptoks = <<>>
  /\ ppc = "lex"
  /\ past = [e |-> NullExpr, i |-> 0]

\* auto tokens = lex(source)
ParserLex ==
  /\ ppc = "lex"
  /\ ptoks' = lex(psrc)
  /\ ppc' = "parse"
  /\ UNCHANGED <<pin, psrc, past>>
  /\ UNCHANGED notParserVars

\* parse_expr(tokens, i) from the first token
ParserParse ==
  /\ ppc = "parse"
  /\ past' = parse_expr(ptoks, 1)
  /\ ppc' = "done"
  /\ UNCHANGED <<pin, psrc, ptoks>>
  /\ UNCHANGED notParserVars

ParserNext ==
  \/ ParserLex
  \/ ParserParse

SpecParser == ParserInit /\ [][ParserNext]_vars

\* The binding level of an operator: comparisons 1, additive 2, multiplicative 3
Level(op) ==
  CASE op \in {"*", "/"} -> 3
    [] op \in {"+", "-"} -> 2
    [] OTHER -> 1

NodeOf(op, l, r) == IF Level(op) = 1 THEN CompareExpr(op, l, r) ELSE BinaryOp(op, l, r)

\* The expression a chain of atoms and operators stands for: its root is
\* the last of the operators that bind least
RECURSIVE TreeOf(_, _)
TreeOf(atoms, ops) ==
  IF ops = <<>> THEN atoms[1]
  ELSE LET low == CHOOSE l \in 1..3 :
                    /\ \E j \in 1..Len(ops) : Level(ops[j]) = l
                    /\ \A j \in 1..Len(ops) : Level(ops[j]) >= l
           root == CHOOSE j \in 1..Len(ops) :
                    /\ Level(ops[j]) = low
                    /\ \A m \in (j + 1)..Len(ops) : Level(ops[m]) > low
       IN  NodeOf(ops[root],
                  TreeOf(SubSeq(atoms, 1, root), SubSeq(ops, 1, root - 1)),
                  TreeOf(SubSeq(atoms, root + 1, Len(atoms)),
                         SubSeq(ops, root + 1, Len(ops))))

Operands(from, to) == [j \in 1..(to - from + 1) |-> VarRef(OperandNames[from + j - 1])]

\* The expression a source text stands for
Meaning(ops, form) ==
  CASE form \in {"tight", "spaced"} -> TreeOf(Operands(1, Len(ops) + 1), ops)
    [] form = "left_paren" ->
         IF ops = <<>> THEN VarRef("a")
         ELSE TreeOf(<<NodeOf(ops[1], VarRef("a"), VarRef("b"))>> \o Operands(3, Len(ops) + 1),
                     Tail(ops))
    [] form = "right_paren" ->
         IF ops = <<>> THEN VarRef("a")
         ELSE NodeOf(ops[1], VarRef("a"), TreeOf(Operands(2, Len(ops) + 1), Tail(ops)))
    [] form = "dangling" -> NullExpr

\* C20: '*' and '/' bind tighter than '+' and '-', these tighter than the
\* comparisons, operators of one level associate to the left, parentheses
\* group, and the whole text is consumed: a + b * c is a + (b * c),
\* a - b - c is (a - b) - c, a < b + c is a < (b + c).
C20_Precedence ==
  ppc = "done" =>
    /\ past.e = Meaning(pin.ops, pin.form)
    /\ past.e # NullExpr => past.i = Len(ptoks)
    /\ psrc = <<"a", " ", "+", " ", "b", " ", "*", " ", "c">> =>
         past.e = BinaryOp("+", VarRef("a"), BinaryOp("*", VarRef("b"), VarRef("c")))
    /\ psrc = <<"a", " ", "-", " ", "b", " ", "-", " ", "c">> =>
         past.e = BinaryOp("-", BinaryOp("-", VarRef("a"), VarRef("b")), VarRef("c"))
    /\ psrc = <<"a", " ", "<", " ", "b", " ", "+", " ", "c">> =>
         past.e = CompareExpr("<", VarRef("a"), BinaryOp("+", VarRef("b"), VarRef("c")))

(***************************************************************************)
(* lex applied to source texts made of the lexemes of the token list, each *)
(* punctuation mark and keyword, an identifier and an integer, separated   *)
(* by spaces, and to the texts of the lexer tests.                         *)
(***************************************************************************)
MaxLexemes == 2

Punctuation ==
  {"(", ")", "{", "}", "[", "]", "+", "-", "*", "/", ",",
   ";", ":", "=", "==", "!=", "<", ">", "<=", ">=", "->"}

Keywords ==
  {"extern", "lib", "import", "export", "fn", "f64", "f32", "i64",
   "i32", "u64", "u32", "void", "ptr", "as", "let", "return",
   "opaque", "struct", "if", "else", "elif", "for", "in"}

Lexemes == Punctuation \cup Keywords \cup {"x", "12"}

\* The characters of a lexeme
LexemeChars(w) ==
  CASE w = "==" -> <<"=", "=">>
    [] w = "!=" -> <<"!", "=">>
    [] w = "<=" -> <<"<", "=">>
    [] w = ">=" -> <<">", "=">>
    [] w = "->" -> <<"-", ">">>
    [] w = "extern" -> <<"e", "x", "t", "e", "r", "n">>
    [] w = "lib" -> <<"l", "i", "b">>
    [] w = "import" -> <<"i", "m", "p", "o", "r", "t">>
    [] w = "export" -> <<"e", "x", "p", "o", "r", "t">>
    [] w = "fn" -> <<"f", "n">>
    [] w = "f64" -> <<"f", "6", "4">>
    [] w = "f32" -> <<"f", "3", "2">>
    [] w = "i64" -> <<"i", "6", "4">>
    [] w = "i32" -> <<"i", "3", "2">>
    [] w = "u64" -> <<"u", "6", "4">>
    [] w = "u32" -> <<"u", "3", "2">>
    [] w = "void" -> <<"v", "o", "i", "d">>
    [] w = "ptr" -> <<"p", "t", "r">>
    [] w = "as" -> <<"a", "s">>
    [] w = "let" -> <<"l", "e", "t">>
    [] w = "return" -> <<"r", "e", "t", "u", "r", "n">>
    [] w = "opaque" -> <<"o", "p", "a", "q", "u", "e">>
    [] w = "struct" -> <<"s", "t", "r", "u", "c", "t">>
    [] w = "if" -> <<"i", "f">>
    [] w = "else" -> <<"e", "l", "s", "e">>
    [] w = "elif" -> <<"e", "l", "i", "f">>
    [] w = "for" -> <<"f", "o", "r">>
    [] w = "in" -> <<"i", "n">>
    [] w = "12" -> <<"1", "2">>
    [] OTHER -> <<w>>

KeywordKind(w) ==
  CASE w = "extern" -> "KwExtern"
    [] w = "lib" -> "KwLib"
    [] w = "import" -> "KwImport"
    [] w = "export" -> "KwExport"
    [] w = "fn" -> "KwFn"
    [] w = "f64" -> "KwF64"
    [] w = "f32" -> "KwF32"
    [] w = "i64" -> "KwI64"
    [] w = "i32" -> "KwI32"
    [] w = "u64" -> "KwU64"
    [] w = "u32" -> "KwU32"
    [] w = "void" -> "KwVoid"
    [] w = "ptr" -> "KwPtr"
    [] w = "as" -> "KwAs"
    [] w = "let" -> "KwLet"
    [] w = "return" -> "KwReturn"
    [] w = "opaque" -> "KwOpaque"
    [] w = "struct" -> "KwStruct"
    [] w = "if" -> "KwIf"
    [] w = "else" -> "KwElse"
    [] w = "elif" -> "KwElif"
    [] w = "for" -> "KwFor"
    [] w = "in" -> "KwIn"

\* The token kind the token list gives a lexeme (lexer.hpp TokenKind)
KindOf(w) ==
  CASE w = "(" -> "LParen"
    [] w = ")" -> "RParen"
    [] w = "{" -> "LCurly"
    [] w = "}" -> "RCurly"
    [] w = "[" -> "LBracket"
    [] w = "]" -> "RBracket"
    [] w = "+" -> "Plus"
    [] w = "-" -> "Minus"
    [] w = "*" -> "Star"
    [] w = "/" -> "Slash"
    [] w = "," -> "Comma"
    [] w = ";" -> "Semicolon"
    [] w = ":" -> "Colon"
    [] w = "=" -> "Equals"
    [] w = "==" -> "EqEq"
    [] w = "!=" -> "Ne"
    [] w = "<" -> "Lt"
    [] w = ">" -> "Gt"
    [] w = "<=" -> "Le"
    [] w = ">=" -> "Ge"
    [] w = "->" -> "Arrow"
    [] w \in Keywords -> KeywordKind(w)
    [] w = "12" -> "IntLiteral"
    [] OTHER -> "Ident"

RECURSIVE LexemeText(_, _)
LexemeText(ws, j) ==
  IF j > Len(ws) THEN <<>>
  ELSE (IF j > 1 THEN <<" ">> ELSE <<>>) \o LexemeChars(ws[j]) \o LexemeText(ws, j + 1)

\* The texts of LexerTests.TokenizesStarAndSlash and TokenizesMinus
TestTexts ==
  {[ops |-> <<"12", "*", "12", "12", "/", "12">>, form |-> "test",
    text |-> <<"2", "*", "3", " ", "6", "/", "2">>],
   [ops |-> <<"12", "-", "12">>, form |-> "test", text |-> <<"5", "-", "2">>]}

LexInit ==
  /\ LayoutIdle /\ RtIdle /\ CompIdle /\ ImpIdle /\ LaterIdle("parser")
  /\ \E t \in {[ops |-> ws, form |-> "lexemes", text |-> LexemeText(ws, 1)] :
                 ws \in SeqsUpTo(Lexemes, MaxLexemes) \ {<<>>}} \cup TestTexts :
       /\ pin = [ops |-> t.ops, form |-> t.form]
       /\ psrc = t.text
  /\ ptoks = <<>>
  /\ ppc = "lex"
  /\ past = [e |-> NullExpr, i |-> 0]

\* fusion::lex(source)
LexRun ==
  /\ ppc = "lex"
  /\ ptoks' = lex(psrc)
  /\ ppc' = "done"
  /\ UNCHANGED <<pin, psrc, past>>
  /\ UNCHANGED notParserVars

LexNext ==
  \/ LexRun

SpecLex == LexInit /\ [][LexNext]_vars

\* C21: every punctuation mark and keyword of the token list gets the token
\* kind of its own: the kinds of the tokens lex returns are those of the
\* lexemes of the text, in their order, followed by Eof; nothing is dropped
\* and no keyword is an identifier.
C21_EveryLexemeItsKind ==
  ppc = "done" =>
    /\ Len(ptoks) = Len(pin.ops) + 1
    /\ \A j \in 1..Len(pin.ops) : ptoks[j].kind = KindOf(pin.ops[j])
    /\ ptoks[Len(ptoks)].kind = "Eof"

(***************************************************************************)
(* Arrays and their element types.  The analyzer is stepped over lets and  *)
(* assignments of array-valued variables and over index expressions, with  *)
(* a history variable giving, for every variable, the element type the     *)
(* array it holds was created with ("no array" when it holds none).         *)
(***************************************************************************)
ElemOrigin(e, g) ==
  CASE e.k = "AllocArray" -> ElemTypeOfName(e.name)
    [] e.k = "Var" ->
         IF ScopeLookup(g.scopes, e.name, "none") = "none" THEN "no array"
         ELSE ScopeLookup(g.scopes, e.name, "none")
    [] OTHER -> "no array"

CreatedWith(g, name) == ScopeLookup(g.scopes, name, "none")

\* The scope that binds a visible name
BindingScope(g, name) == MaxOf({i \in 1..Len(g.scopes) : g.scopes[i][name] # "none"})

ArrayGhostStep(g, st) ==
  CASE st.kind = "let" ->
         [g EXCEPT !.scopes[Len(g.scopes)][st.name] = ElemOrigin(st.e, g)]
    [] st.kind = "assign" /\ st.lhs.k = "Var" /\ CreatedWith(g, st.lhs.name) # "none" ->
         [g EXCEPT !.scopes[BindingScope(g, st.lhs.name)][st.lhs.name] = ElemOrigin(st.e, g)]
    [] st.kind = "if" -> [g EXCEPT !.scopes = Append(@, EmptyScope)]
    [] st.kind = "end" -> [g EXCEPT !.scopes = PopN(@, 1)]
    [] OTHER -> g

ArrayInits ==
  {AllocArrayOf("f64", IntLit), AllocArrayOf("i64", IntLit), AllocArrayOf("i32", IntLit),
   AllocBytesOf(IntLit), VarRef("a"), VarRef("p")}

ArraysInit ==
  /\ LayoutIdle /\ RtIdle /\ ImpIdle /\ LaterIdle("none")
  /\ sdef \in {"top", "f"}
  /\ sema = SemaStart(sdef)
  /\ cg = CgIdle
  /\ blocks = <<>>
  /\ ghost = [scopes |-> <<EmptyScope>>, dead |-> {}]
  /\ nstmts = 0
  /\ last = [kind |-> "none"]

\* One statement checked by the analyzer
ArraysWalk(st, obs) ==
  /\ sema.ok
  /\ \E sta \in {Annotated(st, sema, sdef)} :
       \E s2 \in {SemaStep(sema, sdef, sta, Len(blocks))} :
         /\ sema' = s2
         /\ blocks' = IF s2.ok THEN BlocksAfter(st) ELSE <<>>
         /\ ghost' = IF s2.ok THEN ArrayGhostStep(ghost, st) ELSE ghost
         /\ last' = IF s2.ok THEN obs ELSE [kind |-> "rejected"]
  /\ nstmts' = IF st.kind = "end" THEN nstmts ELSE nstmts + 1
  /\ UNCHANGED <<sdef, cg>>
  /\ UNCHANGED notCompVars

ArraysLet ==
  \E name \in {"a", "p", "q"}, init \in ArrayInits :
    /\ nstmts < MaxItems
    /\ ArraysWalk(LetStmt(name, init), [kind |-> "let"])

ArraysAssign ==
  \E name \in {"a", "p"}, e \in ArrayInits :
    /\ nstmts < MaxItems
    /\ ArraysWalk(AssignStmt(VarRef(name), e), [kind |-> "assign"])

\* print(v[0]): the element type the analyzer gives the index expression
ArraysIndex ==
  \E name \in {"a", "p", "q"} :
    /\ nstmts < MaxItems
    /\ ArraysWalk(ExprStmt(PrintOf(IndexOf(VarRef(name), IntLit))),
                  [kind |-> "index", name |-> name,
                   used |-> SemaExprType(IndexOf(VarRef(name), IntLit), sema),
                   created |-> CreatedWith(ghost, name)])

ArraysIf ==
  /\ nstmts < MaxItems /\ Len(blocks) < MaxDepth
  /\ ArraysWalk(IfStmt(IntLit), [kind |-> "if"])

ArraysEnd ==
  /\ blocks # <<>>
  /\ ArraysWalk(EndMark, [kind |-> "end"])

ArraysNext ==
  \/ ArraysLet
  \/ ArraysAssign
  \/ ArraysIndex
  \/ ArraysIf
  \/ ArraysEnd

SpecArrays == ArraysInit /\ [][ArraysNext]_vars

\* C23: a variable that holds an array, given by alloc_array directly or
\* through lets and assignments from variables that hold one, is annotated
\* with the element type the array was created with, and an index through
\* it has that type.
C23_ElementTypeKept ==
  sema.ok =>
    /\ \A n \in Names :
         CreatedWith(ghost, n) \notin {"none", "no array"} =>
            get_array_element_type(VarRef(n), sema) = CreatedWith(ghost, n)
    /\ (last.kind = "index" /\ last.created \notin {"none", "no array"}) =>
         last.used = last.created
(***************************************************************************)
(* Let-bindings and their slots.  The analyzer and the emitter are stepped *)
(* together over lets whose initializers cover the expression kinds, and   *)
(* the type the analyzer gave the initializer is kept beside the slot.     *)
(***************************************************************************)
LetInits ==
  {IntLit, FloatLit, CastTo(IntLit, "f64"),
   AllocArrayOf("f64", IntLit), AllocArrayOf("i64", IntLit),
   GetFuncPtr("g"), CallFn("g", <<FloatLit>>),
   VarRef("a"), VarRef("x"),
   IndexOf(VarRef("a"), IntLit),
   BinaryOp("+", VarRef("x"), IntLit)}

LetsInit ==
  /\ LayoutIdle /\ RtIdle /\ ImpIdle /\ LaterIdle("none")
  /\ sdef \in {"top", "f"}
  /\ sema = SemaStart(sdef)
  /\ cg = CgStart(sdef)
  /\ blocks = <<>>
  /\ ghost = GhostStart(sdef)
  /\ nstmts = 0
  /\ last = [kind |-> "none"]

\* One statement checked by the analyzer and, when accepted, emitted
LetsWalk(st, obs) ==
  /\ sema.ok /\ cg.ok
  /\ \E sta \in {Annotated(st, sema, sdef)} :
       \E s2 \in {SemaStep(sema, sdef, sta, Len(blocks))} :
         \E c2 \in {IF s2.ok THEN CgStep(cg, sdef, sta, Len(blocks)) ELSE cg} :
           /\ sema' = s2
           /\ cg' = c2
           /\ blocks' = IF s2.ok /\ c2.ok THEN BlocksAfter(st) ELSE <<>>
           /\ last' = IF s2.ok /\ c2.ok THEN obs ELSE [kind |-> "rejected"]
  /\ nstmts' = IF st.kind = "end" THEN nstmts ELSE nstmts + 1
  /\ UNCHANGED <<sdef, ghost>>
  /\ UNCHANGED notCompVars

LetsLet ==
  \E name \in {"a", "x", "y"}, init \in LetInits :
    /\ nstmts < MaxItems
    /\ LetsWalk(LetStmt(name, init),
                [kind |-> "let", name |-> name, init |-> init.k,
                 ty |-> SemaExprType(init, sema)])

LetsIf ==
  /\ nstmts < MaxItems /\ Len(blocks) < MaxDepth
  /\ LetsWalk(IfStmt(IntLit), [kind |-> "if"])

LetsEnd ==
  /\ blocks # <<>>
  /\ LetsWalk(EndMark, [kind |-> "end"])

LetsNext ==
  \/ LetsLet
  \/ LetsIf
  \/ LetsEnd

SpecLets == LetsInit /\ [][LetsNext]_vars

\* C24: the type the emitter chooses for the slot of a let-bound variable
\* is the type the analyzer assigned to the initializer.
C24_SlotTypeOfInit ==
  last.kind = "let" => vars_lookup(cg, last.name) = ffi_type_to_llvm(last.ty)
(***************************************************************************)
(* The signature cache of the runtime (runtime_c/src/ffi.c).  A signature  *)
(* pointer is the index of its slot of sig_storage, 0 is NULL.  The kinds  *)
(* are the values of rt_ffi_type_kind_t, RT_FFI_VOID = 0 up to             *)
(* RT_FFI_CSTRING.                                                         *)
(***************************************************************************)
RT_FFI_MAX_ARGS == 32
RT_FFI_CACHE_MAX == 64

\* The kinds kind_valid accepts
FfiKinds == 0..6

kind_valid(kind) == kind >= 0 /\ kind <= 6

Sig(return_kind, arg_kinds) ==
  [return_kind |-> return_kind, nargs |-> Len(arg_kinds), arg_kinds |-> arg_kinds]

sig_matches(s, return_kind, nargs, arg_kinds) ==
  /\ s.return_kind = return_kind
  /\ s.nargs = nargs
  /\ \A i \in 1..nargs : s.arg_kinds[i] = arg_kinds[i]

\* A lookup that finds nothing
sig_cache_find_nothing(c, storage, return_kind, nargs, arg_kinds) == 0

\* The loop over sig_cache: the pointer of the first entry that matches,
\* 0 when none does
sig_cache_find(c, storage, return_kind, nargs, arg_kinds) ==
  IF \E i \in 1..Len(c) : sig_matches(storage[c[i]], return_kind, nargs, arg_kinds)
  THEN c[CHOOSE i \in 1..Len(c) :
           /\ sig_matches(storage[c[i]], return_kind, nargs, arg_kinds)
           /\ \A j \in 1..(i - 1) :
                ~sig_matches(storage[c[j]], return_kind, nargs, arg_kinds)]
  ELSE 0

\* s = &sig_storage[sig_cache_count], filled with the call's kinds
StorageWritten(storage, count, call) ==
  [i \in 1..(IF Len(storage) > count THEN Len(storage) ELSE count + 1) |->
     IF i = count + 1 THEN Sig(call.return_kind, SubSeq(call.arg_kinds, 1, call.nargs))
     ELSE storage[i]]

\* What a call leaves: the pointer returned, the error buffer, the cache
\* and the storage
FfiOutcome(ret, err, c, storage) ==
  [ret |-> ret, err |-> err, sig_cache |-> c, sig_storage |-> storage]

FfiCreated(c, storage, call, status) ==
  IF status # "FFI_OK"
  THEN FfiOutcome(0, "rt_ffi_sig_create: ffi_prep_cif failed", c,
                  StorageWritten(storage, Len(c), call))
  ELSE FfiOutcome(Len(c) + 1, "", Append(c, Len(c) + 1),
                  StorageWritten(storage, Len(c), call))

FfiLookedUp(c, storage, call, status, found) ==
  IF found # 0 THEN FfiOutcome(found, "", c, storage)
  ELSE IF Len(c) >= RT_FFI_CACHE_MAX
  THEN FfiOutcome(0, "rt_ffi_sig_create: signature cache full", c, storage)
  ELSE FfiCreated(c, storage, call, status)

\* rt_ffi_sig_create; status is what ffi_prep_cif returns if it is called
rt_ffi_sig_create(c, storage, call, status) ==
  IF ~kind_valid(call.return_kind)
  THEN FfiOutcome(0, "rt_ffi_sig_create: unsupported return type", c, storage)
  ELSE IF call.nargs > RT_FFI_MAX_ARGS
  THEN FfiOutcome(0, "rt_ffi_sig_create: too many arguments", c, storage)
  ELSE IF call.null /\ call.nargs > 0
  THEN FfiOutcome(0, "rt_ffi_sig_create: null arg_kinds", c, storage)
  ELSE IF \E i \in 1..call.nargs : ~kind_valid(call.arg_kinds[i])
  THEN FfiOutcome(0, "rt_ffi_sig_create: unsupported argument type", c, storage)
  ELSE FfiLookedUp(c, storage, call, status,
                   sig_cache_find(c, storage, call.return_kind, call.nargs,
                                  call.arg_kinds))

\* The calls made.  The signatures are enumerated: the first MaxFree entries
\* of the cache are created in any order from a pool of four signatures,
\* the later ones in the order of the enumeration; signatures of the pool
\* and the one cached last are asked for again at any time.
MaxFree == 2

SigOf(n) ==
  Sig(n % 7,
      IF n \div 7 = 0 THEN <<>>
      ELSE IF n \div 7 <= 7 THEN <<(n \div 7) - 1>>
      ELSE <<(n \div 7) - 8, 0>>)

SigCount == RT_FFI_CACHE_MAX + 2

PoolSigs == {SigOf(0), SigOf(2), SigOf(7), SigOf(23)}

CallOfSig(s) ==
  [return_kind |-> s.return_kind, nargs |-> s.nargs, arg_kinds |-> s.arg_kinds,
   null |-> FALSE]

Cached(s) == \E i \in 1..Len(sig_cache) : sig_storage[sig_cache[i]] = s

FirstFresh ==
  CHOOSE n \in 0..(SigCount - 1) :
    ~Cached(SigOf(n)) /\ \A m \in 0..(n - 1) : Cached(SigOf(m))

InvalidCalls ==
  {[return_kind |-> 7, nargs |-> 0, arg_kinds |-> <<>>, null |-> FALSE],
   [return_kind |-> 0 - 1, nargs |-> 0, arg_kinds |-> <<>>, null |-> TRUE],
   [return_kind |-> 2, nargs |-> RT_FFI_MAX_ARGS + 1,
    arg_kinds |-> [i \in 1..(RT_FFI_MAX_ARGS + 1) |-> 2], null |-> FALSE],
   [return_kind |-> 2, nargs |-> 1, arg_kinds |-> <<>>, null |-> TRUE],
   [return_kind |-> 2, nargs |-> 2, arg_kinds |-> <<2, 7>>, null |-> FALSE]}

FfiInit ==
  /\ LayoutIdle /\ RtIdle /\ CompIdle /\ ImpIdle /\ LaterIdle("ffi")
  /\ sig_cache = <<>>
  /\ sig_storage = <<>>
  /\ flast = [kind |-> "none"]
  /\ fhist = {}

FfiCall(call, status) ==
  \E out \in {rt_ffi_sig_create(sig_cache, sig_storage, call, status)} :
    /\ sig_cache' = out.sig_cache
    /\ sig_storage' = out.sig_storage
    /\ flast' = [kind |-> "call", call |-> call, ret |-> out.ret, err |-> out.err]
    /\ fhist' = IF out.ret = 0 THEN fhist
                ELSE fhist \cup {[sig |-> Sig(call.return_kind, call.arg_kinds),
                                  ptr |-> out.ret]}
    /\ UNCHANGED notFfiVars

\* A call with a signature that has been cached
FfiCreateAgain ==
  \E s \in {t \in PoolSigs \cup {sig_storage[i] : i \in 1..Len(sig_storage)} :
              Cached(t)} :
    /\ s \in PoolSigs \/ s = sig_storage[sig_cache[Len(sig_cache)]]
    /\ FfiCall(CallOfSig(s), "FFI_OK")

\* A call with a signature that has not, ffi_prep_cif accepting it or not
FfiCreateNew ==
  \E s \in (IF Len(sig_cache) < MaxFree THEN {t \in PoolSigs : ~Cached(t)}
            ELSE {SigOf(FirstFresh)}),
     status \in {"FFI_OK", "FFI_BAD_TYPEDEF"} :
    FfiCall(CallOfSig(s), status)

\* A call with arguments the function rejects
FfiCreateInvalid ==
  \E call \in InvalidCalls, status \in {"FFI_OK"} :
    FfiCall(call, status)

FfiNext ==
  \/ FfiCreateAgain
  \/ FfiCreateNew
  \/ FfiCreateInvalid

SpecFfi == FfiInit /\ [][FfiNext]_vars

\* C26: the cache holds at most 64 entries, their (return kind, argument
\* kinds) are pairwise different, and two successful calls with the same
\* return kind and argument kinds returned the same pointer.
C26_CacheBounded ==
  /\ Len(sig_cache) <= RT_FFI_CACHE_MAX
  /\ \A i, j \in 1..Len(sig_cache) :
       i # j => sig_storage[sig_cache[i]] # sig_storage[sig_cache[j]]
  /\ \A p, q \in fhist : p.sig = q.sig => p.ptr = q.ptr

\* The cache is full, every entry from a successful call, and a cached
\* signature is returned again
C26_Witness ==
  /\ Len(sig_cache) = RT_FFI_CACHE_MAX
  /\ flast.kind = "call" /\ flast.ret # 0
  /\ \E p \in fhist : p.ptr = flast.ret /\ p.sig = Sig(flast.call.return_kind, flast.call.arg_kinds)
  /\ Cardinality(fhist) = RT_FFI_CACHE_MAX

\* The cache is full and one more signature has been refused
C26_WitnessFull ==
  /\ Len(sig_cache) = RT_FFI_CACHE_MAX
  /\ flast.kind = "call"
  /\ flast.err = "rt_ffi_sig_create: signature cache full"
(***************************************************************************)
(* The scope stacks.  The analyzer and the emitter are stepped together   *)
(* over lets and nested if/else blocks whose conditions are integers,      *)
(* floats, pointers and unbound names, so that either of the two may fail  *)
(* inside a block.                                                         *)
(***************************************************************************)
ScopesLet ==
  \E b \in {<<"p", GetFuncPtr("f")>>, <<"x", IntLit>>, <<"x", FloatLit>>} :
    /\ nstmts < MaxItems
    /\ LetsWalk(LetStmt(b[1], b[2]), [kind |-> "let"])

ScopesIf ==
  \E cond \in {IntLit, FloatLit, VarRef("x"), VarRef("p"), VarRef("q")} :
    /\ nstmts < MaxItems /\ Len(blocks) < MaxDepth
    /\ LetsWalk(IfStmt(cond), [kind |-> "if", depth |-> Len(blocks) + 1])

ScopesElse ==
  /\ blocks # <<>> /\ blocks[Len(blocks)] = "then"
  /\ nstmts < MaxItems
  /\ LetsWalk(ElseMark, [kind |-> "else"])

ScopesEnd ==
  /\ blocks # <<>>
  /\ LetsWalk(EndMark, [kind |-> "end"])

ScopesNext ==
  \/ ScopesLet
  \/ ScopesIf
  \/ ScopesElse
  \/ ScopesEnd

SpecScopes == LetsInit /\ [][ScopesNext]_vars

\* C28: the three scope stacks of the analyzer have one depth, and so have
\* those of the emitter; a checked or emitted statement leaves the depth
\* as it was before it, whether it succeeded or failed: while both succeed
\* the depth is that of the function body plus the blocks that are open,
\* and the one that failed is back at the depth of the function body, the
\* failure having ended every statement that was open.
C28_ScopesBalanced ==
  /\ Len(sema.vars) = Len(sema.elems) /\ Len(sema.elems) = Len(sema.fnptrs)
  /\ Len(cg.slots) = Len(cg.elems) /\ Len(cg.elems) = Len(cg.fnptrs)
  /\ (sema.ok /\ cg.ok) =>
       /\ Len(sema.vars) = 1 + Len(blocks)
       /\ Len(cg.slots) = 1 + Len(blocks)
  /\ ~sema.ok => Len(sema.vars) = 1
  /\ ~cg.ok => Len(cg.slots) = 1
(***************************************************************************)
(* The basic blocks of a function.  emit_user_fn_body emits the statements *)
(* of the body in order; a block is the sequence of its instructions,      *)
(* "inst" standing for every instruction that is no terminator.  The       *)
(* statements are those the analyzer accepts: a return may stand anywhere  *)
(* in a body.                                                              *)
(***************************************************************************)
Terminators == {"br", "condbr", "ret", "unreachable"}

\* BasicBlock::getTerminator: the last instruction, when it is a terminator
HasTerminator(b) == Len(b) > 0 /\ b[Len(b)] \in Terminators

\* if (!B.GetInsertBlock()->getTerminator()) B.CreateBr(merge_bb);
BranchUnlessTerminated(bs, at) ==
  IF HasTerminator(bs[at]) THEN bs ELSE [bs EXCEPT ![at] = Append(@, "br")]

\* The builder appends to the block of the insertion point
Emitted(bs, at, instrs) == [bs EXCEPT ![at] = @ \o instrs]

BlkInit ==
  /\ LayoutIdle /\ RtIdle /\ CompIdle /\ ImpIdle /\ LaterIdle("blk")
  /\ irfn \in {"Void", "I64"}
  /\ irblocks = <<<<>>>>
  /\ irpoint = 1
  /\ iropen = <<>>
  /\ irn = 0
  /\ irpc = "body"

\* A let, an assignment or an expression statement
BlkSimple ==
  /\ irpc = "body" /\ irn < MaxItems
  /\ irblocks' = Emitted(irblocks, irpoint, <<"inst">>)
  /\ irn' = irn + 1
  /\ UNCHANGED <<irfn, irpoint, iropen, irpc>>
  /\ UNCHANGED notBlkVars

\* emit_stmt, Stmt::Kind::Return
BlkReturn ==
  /\ irpc = "body" /\ irn < MaxItems
  /\ irblocks' = Emitted(irblocks, irpoint, <<"ret">>)
  /\ irn' = irn + 1
  /\ UNCHANGED <<irfn, irpoint, iropen, irpc>>
  /\ UNCHANGED notBlkVars

\* emit_stmt, Stmt::Kind::If, up to the then-body: the blocks then, else
\* and merge are created and the conditional branch emitted
BlkIf ==
  /\ irpc = "body" /\ irn < MaxItems /\ Len(iropen) < MaxDepth
  /\ irblocks' = Emitted(irblocks, irpoint, <<"condbr">>) \o <<<<>>, <<>>, <<>>>>
  /\ irpoint' = Len(irblocks) + 1
  /\ iropen' = Append(iropen, [kind |-> "then", else_bb |-> Len(irblocks) + 2,
                               merge_bb |-> Len(irblocks) + 3])
  /\ irn' = irn + 1
  /\ UNCHANGED <<irfn, irpc>>
  /\ UNCHANGED notBlkVars

\* The then-body is emitted and the else-body is not empty
BlkElse ==
  /\ irpc = "body" /\ irn < MaxItems
  /\ iropen # <<>> /\ iropen[Len(iropen)].kind = "then"
  /\ irblocks' = BranchUnlessTerminated(irblocks, irpoint)
  /\ irpoint' = iropen[Len(iropen)].else_bb
  /\ iropen' = [iropen EXCEPT ![Len(iropen)].kind = "else"]
  /\ irn' = irn + 1
  /\ UNCHANGED <<irfn, irpc>>
  /\ UNCHANGED notBlkVars

\* The end of an if statement: of its then-body when it has no else-body
\* (the else block is a branch to merge), else of its else-body
BlkEndIf ==
  /\ irpc = "body"
  /\ iropen # <<>> /\ iropen[Len(iropen)].kind \in {"then", "else"}
  /\ irblocks' =
       IF iropen[Len(iropen)].kind = "then"
       THEN Emitted(BranchUnlessTerminated(irblocks, irpoint),
                    iropen[Len(iropen)].else_bb, <<"br">>)
       ELSE BranchUnlessTerminated(irblocks, irpoint)
  /\ irpoint' = iropen[Len(iropen)].merge_bb
  /\ iropen' = PopN(iropen, 1)
  /\ UNCHANGED <<irfn, irn, irpc>>
  /\ UNCHANGED notBlkVars

\* emit_stmt, Stmt::Kind::For, up to the body: the blocks cond, body and
\* exit are created
BlkFor ==
  /\ irpc = "body" /\ irn < MaxItems /\ Len(iropen) < MaxDepth
  /\ irblocks' = Emitted(irblocks, irpoint, <<"inst", "br">>)
                   \o <<<<"inst", "condbr">>, <<"inst">>, <<>>>>
  /\ irpoint' = Len(irblocks) + 2
  /\ iropen' = Append(iropen, [kind |-> "for", else_bb |-> Len(irblocks) + 1,
                               merge_bb |-> Len(irblocks) + 3])
  /\ irn' = irn + 1
  /\ UNCHANGED <<irfn, irpc>>
  /\ UNCHANGED notBlkVars

\* The end of a loop body: the index is stored and cond branched to
BlkEndFor ==
  /\ irpc = "body"
  /\ iropen # <<>> /\ iropen[Len(iropen)].kind = "for"
  /\ irblocks' = Emitted(irblocks, irpoint, <<"inst", "br">>)
  /\ irpoint' = iropen[Len(iropen)].merge_bb
  /\ iropen' = PopN(iropen, 1)
  /\ UNCHANGED <<irfn, irn, irpc>>
  /\ UNCHANGED notBlkVars

\* emit_user_fn_body after the last statement of the body
BlkFnEnd ==
  /\ irpc = "body" /\ iropen = <<>>
  /\ irblocks' =
       IF HasTerminator(irblocks[irpoint]) THEN irblocks
       ELSE Emitted(irblocks, irpoint,
                    IF irfn = "Void" THEN <<"ret">> ELSE <<"unreachable">>)
  /\ irpc' = "done"
  /\ UNCHANGED <<irfn, irpoint, iropen, irn>>
  /\ UNCHANGED notBlkVars

BlkNext ==
  \/ BlkSimple
  \/ BlkReturn
  \/ BlkIf
  \/ BlkElse
  \/ BlkEndIf
  \/ BlkFor
  \/ BlkEndFor
  \/ BlkFnEnd

SpecBlocks == BlkInit /\ [][BlkNext]_vars

\* C29: every basic block of an emitted function ends with a terminator
\* and holds no other one, so that no instruction follows a terminator.
C29_OneTerminator ==
  irpc = "done" =>
    \A b \in 1..Len(irblocks) :
       /\ HasTerminator(irblocks[b])
       /\ \A i \in 1..(Len(irblocks[b]) - 1) : irblocks[b][i] \notin Terminators

====
